---------------------------- MODULE Spec2Model ----------------------------
(***************************************************************************)
(* A model of wyag (a small git re-implementation in Python): the object   *)
(* store (objects.py), the staging index (index.py), the reference         *)
(* resolver (repo.py) and the commands built from them (libwyag.py).       *)
(*                                                                         *)
(* The module holds several specifications over one set of variables.     *)
(* Each specification drives one part of the program and leaves the        *)
(* variables of the other parts at their idle values.                      *)
(*                                                                         *)
(* Operators are written so that a value that is used more than once is a  *)
(* parameter of a helper operator rather than a LET definition: a source   *)
(* function of several statements becomes a chain of operators, one per    *)
(* statement or group of statements, each handing its results on.          *)
(***************************************************************************)
EXTENDS Integers, Sequences, FiniteSets, TLC

VARIABLES
    wt,         \* Spec, SpecAddRace: worktree, file path -> content id (0: no such file)
    index,      \* Spec, SpecAddRace: entries of .git/index, in file order
    raised,     \* Spec: whether the last command ended by raising
    fs,         \* the files under .git: object store, index file, temp files
    subject,    \* SpecObj: the object the run writes and reads back
    firstSha,   \* SpecObj: (fmt, payload) -> digest its first object_write returned
    last,       \* SpecObj: the last call, its arguments and its result
    io,         \* SpecIndexIO: the index at hand and the last call on it
    pc,         \* step specs: process -> where it stands in its call
    loc,        \* step specs: process -> the local variables of its call
    refs,       \* SpecFind, SpecRef: ref path -> content of the ref file
    found,      \* SpecFind: the last object_find, its name and its outcome
    rr,         \* SpecRef: the ref_resolve under way, its frames and its outcome
    tb,         \* SpecTree: the tree_from_index under way
    ap,         \* codec, path and zone specs: the last function applied, its input and
                \* output; SpecStore, SpecFollow: the objects put in the store
    cm          \* SpecCommit: the commits made, oldest first, and the last command

varsAdd == <<wt, index, raised>>
varsObj == <<subject, firstSha, last>>
varsStep == <<pc, loc>>
varsRef == <<refs, found, rr>>

vars == <<wt, index, raised, fs, subject, firstSha, last, io, pc, loc, refs, found, rr, tb, ap, cm>>

\* What the actions of each specification leave alone.
othersAdd == <<varsObj, io, varsStep, varsRef, tb, ap, cm>>
othersObj == <<varsAdd, io, varsStep, varsRef, tb, ap, cm>>
othersIo == <<varsAdd, varsObj, varsStep, varsRef, tb, ap, cm>>
othersStep == <<varsAdd, varsObj, io, varsRef, tb, ap, cm>>
othersAddRace == <<raised, varsObj, io, varsRef, tb, ap, cm>>
othersFind == <<varsAdd, varsObj, io, varsStep, rr, tb, ap, cm>>
othersRef == <<varsAdd, fs, varsObj, io, varsStep, found, tb, ap, cm>>
othersTree == <<varsAdd, varsObj, io, varsStep, varsRef, ap, cm>>

othersAp == <<varsAdd, fs, varsObj, io, varsStep, varsRef, tb, cm>>
othersCommit == <<varsAdd, varsObj, io, varsStep, found, rr, tb, ap>>
othersStaged == <<index, varsObj, io, varsStep, found, rr, tb, cm>>
othersStore == <<varsAdd, subject, firstSha, io, varsStep, varsRef, tb, cm>>
othersFollow == <<varsAdd, varsObj, io, varsStep, refs, rr, tb, cm>>
othersTz == <<varsAdd, varsObj, io, varsStep, varsRef, tb, cm>>
-----------------------------------------------------------------------------
(* Generic helpers                                                         *)

Range(s) == {s[i] : i \in 1..Len(s)}

\* All orders in which the members of a finite set can be visited.
Perms(S) ==
    {s \in [1..Cardinality(S) -> S] : \A i, j \in 1..Cardinality(S) : s[i] = s[j] => i = j}

Min(S) == CHOOSE x \in S : \A y \in S : x <= y
Max(S) == CHOOSE x \in S : \A y \in S : x >= y

\* The least member of a set of indices, or `none` for the empty set.
FirstOr(S, none) == IF S = {} THEN none ELSE Min(S)

-----------------------------------------------------------------------------
(* Python bytes and str: a string is a sequence of integers (bytes 0..255, *)
(* or code points of ASCII text), indexed from 0 as in the source.         *)

NUL == 0
NL == 10
SP == 32
Slash == 47
Zero == 48

\* Python's slice index normalisation for a sequence of length n.
SliceIndex(k, n) == IF k < 0 THEN (IF k + n < 0 THEN 0 ELSE k + n)
                    ELSE (IF k > n THEN n ELSE k)

\* s[i:j]
Slice(s, i, j) == SubSeq(s, SliceIndex(i, Len(s)) + 1, SliceIndex(j, Len(s)))

\* s[i:]
SliceFrom(s, i) == SubSeq(s, SliceIndex(i, Len(s)) + 1, Len(s))

\* s.find(b, start) for a single byte b: the first index >= start, or -1.
find(s, b, start) == FirstOr({i \in start..(Len(s) - 1) : s[i + 1] = b}, -1)

\* s.startswith(p)
startswith(s, p) == Len(p) <= Len(s) /\ SubSeq(s, 1, Len(p)) = p

\* str(n).encode() for n >= 0
RECURSIVE str(_)
str(n) == IF n < 10 THEN <<Zero + n>> ELSE str(n \div 10) \o <<Zero + (n % 10)>>

IsDigit(b) == b >= Zero /\ b <= Zero + 9

RECURSIVE DigitsValue(_)
DigitsValue(s) ==
    IF s = <<>> THEN 0 ELSE 10 * DigitsValue(SubSeq(s, 1, Len(s) - 1)) + (s[Len(s)] - Zero)

RECURSIVE StripLeft(_)
StripLeft(s) == IF s # <<>> /\ s[1] \in {SP, NL} THEN StripLeft(Tail(s)) ELSE s

\* int(s.decode("ascii")): leading whitespace is skipped; anything but
\* decimal digits raises ValueError (-1 here).
IntOfDigits(t) ==
    IF t = <<>> \/ \E i \in 1..Len(t) : ~IsDigit(t[i]) THEN -1 ELSE DigitsValue(t)

int(s) == IntOfDigits(StripLeft(s))

\* zlib.compress / zlib.decompress: a stream is the two header bytes 0x78
\* 0x9c followed by the data (stored, not deflated); anything else is not
\* a stream (zlib.error).
zlibHeader == <<120, 156>>
compress(data) == zlibHeader \o data
IsStream(z) == startswith(z, zlibHeader)
decompress(z) == SliceFrom(z, 2)

\* hashlib.sha1(frame).hexdigest(): 40 hex digits (each 0..15).  SHA-1 is
\* stood in for by two polynomial hashes of the frame, which fill the
\* first eight digits.
HashP == 32749
HashQ == 32719
\* mult^k modulo modulus, by squaring.
RECURSIVE PowMod(_, _, _)
PowMod(mult, k, modulus) ==
    IF k = 0 THEN 1
    ELSE IF k % 2 = 1 THEN (mult * PowMod(mult, k - 1, modulus)) % modulus
    ELSE PowMod((mult * mult) % modulus, k \div 2, modulus)

\* The polynomial hash of s[lo..hi], computed by halves.
RECURSIVE PolyRange(_, _, _, _, _)
PolyHalves(s, mult, modulus, lo, mid, hi) ==
    (PolyRange(s, mult, modulus, lo, mid) * PowMod(mult, hi - mid, modulus)
        + PolyRange(s, mult, modulus, mid + 1, hi)) % modulus

PolyRange(s, mult, modulus, lo, hi) ==
    IF lo > hi THEN 0
    ELSE IF lo = hi THEN (s[lo] + 1) % modulus
    ELSE PolyHalves(s, mult, modulus, lo, (lo + hi) \div 2, hi)

PolyHash(s, mult, modulus, acc) ==
    (acc * PowMod(mult, Len(s), modulus) + PolyRange(s, mult, modulus, 1, Len(s))) % modulus

Hex4(n) == <<(n \div 4096) % 16, (n \div 256) % 16, (n \div 16) % 16, n % 16>>

DigestHexLen == 40
sha1(frame) ==
    Hex4(PolyHash(frame, 31, HashP, 7)) \o Hex4(PolyHash(frame, 37, HashQ, 11))
        \o [i \in 1..(DigestHexLen - 8) |-> 0]

\* int(sha, 16).to_bytes(20, byteorder="big") for a 40 digit sha.
RawShaLen == 20
ShaToBytes(sha) == [i \in 1..RawShaLen |-> 16 * sha[2 * i - 1] + sha[2 * i]]

\* format(int.from_bytes(raw, "big"), "040x"): raw is at most 20 bytes.
HexOfBytes(padded) ==
    [i \in 1..DigestHexLen |->
        IF i % 2 = 1 THEN padded[(i + 1) \div 2] \div 16 ELSE padded[i \div 2] % 16]

BytesToSha(raw) == HexOfBytes([i \in 1..(RawShaLen - Len(raw)) |-> 0] \o raw)

-----------------------------------------------------------------------------
(* objects.py: the four object kinds and their codecs                      *)

fmtBlob == <<98, 108, 111, 98>>
fmtTree == <<116, 114, 101, 101>>
fmtCommit == <<99, 111, 109, 109, 105, 116>>
fmtTag == <<116, 97, 103>>
Fmts == {fmtBlob, fmtTree, fmtCommit, fmtTag}

\* A GitObject: fmt and the attribute its class keeps (blobdata, items or
\* kvlm); the attributes of the other classes stay empty.
GitBlob(data) == [fmt |-> fmtBlob, blobdata |-> data, items |-> <<>>, kvlm |-> <<>>]
GitTree(items) == [fmt |-> fmtTree, blobdata |-> <<>>, items |-> items, kvlm |-> <<>>]
GitCommit(kvlm) == [fmt |-> fmtCommit, blobdata |-> <<>>, items |-> <<>>, kvlm |-> kvlm]
GitTag(kvlm) == [fmt |-> fmtTag, blobdata |-> <<>>, items |-> <<>>, kvlm |-> kvlm]
NoObject == GitBlob(<<>>)

GitTreeLeaf(mode, path, sha) == [mode |-> mode, path |-> path, sha |-> sha]

\* Python's < on strings and bytes.
RECURSIVE LexLess(_, _)
LexLess(a, b) ==
    IF b = <<>> THEN FALSE
    ELSE IF a = <<>> THEN TRUE
    ELSE IF a[1] # b[1] THEN a[1] < b[1]
    ELSE LexLess(Tail(a), Tail(b))

tree_leaf_sort_key(leaf) ==
    IF startswith(leaf.mode, <<Zero + 1, Zero>>) THEN leaf.path ELSE leaf.path \o <<Slash>>

\* obj.items.sort(key=tree_leaf_sort_key): a stable sort.
RECURSIVE InsertLeaf(_, _)
InsertLeaf(sorted, leaf) ==
    IF sorted = <<>> THEN <<leaf>>
    ELSE IF LexLess(tree_leaf_sort_key(leaf), tree_leaf_sort_key(Head(sorted)))
         THEN <<leaf>> \o sorted
         ELSE <<Head(sorted)>> \o InsertLeaf(Tail(sorted), leaf)

RECURSIVE SortLeaves(_)
SortLeaves(items) ==
    IF items = <<>> THEN <<>>
    ELSE InsertLeaf(SortLeaves(SubSeq(items, 1, Len(items) - 1)), items[Len(items)])

LeafBytes(i) == i.mode \o <<SP>> \o i.path \o <<NUL>> \o ShaToBytes(i.sha)

RECURSIVE ConcatLeaves(_)
ConcatLeaves(items) ==
    IF items = <<>> THEN <<>> ELSE LeafBytes(Head(items)) \o ConcatLeaves(Tail(items))

tree_serialize(items) == ConcatLeaves(SortLeaves(items))

\* tree_parse_one(raw, start): [ok, pos, leaf]; ok is FALSE where the
\* source's assert fails.  x and y are the source's x and y.
NormalMode(mode) == IF Len(mode) = 5 THEN <<Zero>> \o mode ELSE mode

\* tree_parse_one taking the path from the space, raw[x:y].
tree_parse_leaf_from_space(raw, start, x, y) ==
    [ok |-> x - start = 5 \/ x - start = 6,
     pos |-> y + 1 + RawShaLen,
     leaf |-> GitTreeLeaf(NormalMode(Slice(raw, start, x)), Slice(raw, x, y),
                          BytesToSha(Slice(raw, y + 1, y + 1 + RawShaLen)))]

tree_parse_leaf(raw, start, x, y) ==
    [ok |-> x - start = 5 \/ x - start = 6,
     pos |-> y + 1 + RawShaLen,
     leaf |-> GitTreeLeaf(NormalMode(Slice(raw, start, x)), Slice(raw, x + 1, y),
                          BytesToSha(Slice(raw, y + 1, y + 1 + RawShaLen)))]

tree_parse_name(raw, start, x) == tree_parse_leaf(raw, start, x, find(raw, NUL, x))

tree_parse_one(raw, start) == tree_parse_name(raw, start, find(raw, SP, start))

\* tree_parse(raw): [ok, items].
TreeCons(leaf, rest) == [ok |-> rest.ok, items |-> <<leaf>> \o rest.items]

RECURSIVE tree_parse_from(_, _)
tree_parse_next(raw, pos, one) ==
    IF ~one.ok \/ one.pos <= pos THEN [ok |-> FALSE, items |-> <<>>]
    ELSE TreeCons(one.leaf, tree_parse_from(raw, one.pos))

tree_parse_from(raw, pos) ==
    IF pos >= Len(raw) THEN [ok |-> TRUE, items |-> <<>>]
    ELSE tree_parse_next(raw, pos, tree_parse_one(raw, pos))

tree_parse(raw) == tree_parse_from(raw, 0)

\* A kvlm is a Python dict, which keeps insertion order: a sequence of
\* items [key, isNone, list, vals].  isNone marks the key None (the
\* message); list tells a list value from a single bytes value.
KvItem(key, value) == [key |-> key, isNone |-> FALSE, list |-> FALSE, vals |-> <<value>>]
KvList(key, values) == [key |-> key, isNone |-> FALSE, list |-> TRUE, vals |-> values]
KvMessage(message) == [key |-> <<>>, isNone |-> TRUE, list |-> FALSE, vals |-> <<message>>]

\* The place of key in dct, 0 if it is not a key of it.
KvIndex(dct, key) ==
    FirstOr({i \in 1..Len(dct) : ~dct[i].isNone /\ dct[i].key = key}, 0)

\* v.replace(b'\n', b'\n ')
RECURSIVE EscapeNewlines(_)
EscapeNewlines(v) ==
    IF v = <<>> THEN <<>>
    ELSE IF Head(v) = NL THEN <<NL, SP>> \o EscapeNewlines(Tail(v))
    ELSE <<Head(v)>> \o EscapeNewlines(Tail(v))

\* A parser that leaves the space of a continuation line in the value.
KeepContinuation(v) == v

\* v.replace(b'\n ', b'\n')
RECURSIVE UnescapeNewlines(_)
UnescapeNewlines(v) ==
    IF v = <<>> THEN <<>>
    ELSE IF Len(v) >= 2 /\ v[1] = NL /\ v[2] = SP
         THEN <<NL>> \o UnescapeNewlines(SubSeq(v, 3, Len(v)))
    ELSE <<Head(v)>> \o UnescapeNewlines(Tail(v))

\* The while loop of kvlm_parse: the first newline after `end` that is not
\* followed by a space; -1 where the source leaves the input (IndexError)
\* or finds no newline.
RECURSIVE kvlm_value_end(_, _)
kvlm_value_end_at(raw, e) ==
    IF e < 0 \/ e + 1 >= Len(raw) THEN -1
    ELSE IF raw[e + 2] # SP THEN e
    ELSE kvlm_value_end(raw, e)

kvlm_value_end(raw, end) == kvlm_value_end_at(raw, find(raw, NL, end + 1))

\* dct[key] = value, or the growth of dct[key] into a list, of kvlm_parse.
kvlm_store_at(dct, key, value, i) ==
    IF i = 0 THEN Append(dct, KvItem(key, value))
    ELSE [dct EXCEPT ![i] = KvList(key, Append(@.vals, value))]

kvlm_store(dct, key, value) == kvlm_store_at(dct, key, value, KvIndex(dct, key))

\* kvlm_parse(raw, start, dct): [ok, kvlm]; ok is FALSE where the source
\* raises.
RECURSIVE kvlm_parse_from(_, _, _)
kvlm_parse_field(raw, start, dct, spc, end) ==
    IF end < 0 THEN [ok |-> FALSE, kvlm |-> dct]
    ELSE kvlm_parse_from(raw, end + 1,
             kvlm_store(dct, Slice(raw, start, spc),
                        UnescapeNewlines(Slice(raw, spc + 1, end))))

kvlm_parse_line(raw, start, dct, spc, nl) ==
    IF spc < 0 \/ nl < spc
    THEN [ok |-> nl = start, kvlm |-> Append(dct, KvMessage(SliceFrom(raw, start + 1)))]
    ELSE kvlm_parse_field(raw, start, dct, spc, kvlm_value_end(raw, start))

kvlm_parse_from(raw, start, dct) ==
    kvlm_parse_line(raw, start, dct, find(raw, SP, start), find(raw, NL, start))

kvlm_parse(raw) == kvlm_parse_from(raw, 0, <<>>)

\* The lines kvlm_serialize emits for one key.
RECURSIVE FieldLines(_, _)
FieldLines(key, vals) ==
    IF vals = <<>> THEN <<>>
    ELSE key \o <<SP>> \o EscapeNewlines(Head(vals)) \o <<NL>> \o FieldLines(key, Tail(vals))

ItemLines(it) == IF it.isNone THEN <<>> ELSE FieldLines(it.key, it.vals)

RECURSIVE kvlm_serialize_items(_)
kvlm_serialize_items(dct) ==
    IF dct = <<>> THEN <<>> ELSE ItemLines(Head(dct)) \o kvlm_serialize_items(Tail(dct))

\* kvlm[None]; the key must be there (KeyError otherwise).
KvMessageOf(dct) == dct[Max({i \in 1..Len(dct) : dct[i].isNone})].vals[1]

kvlm_serialize(dct) == kvlm_serialize_items(dct) \o <<NL>> \o KvMessageOf(dct)

\* obj.serialize()
serialize(obj) ==
    IF obj.fmt = fmtBlob THEN obj.blobdata
    ELSE IF obj.fmt = fmtTree THEN tree_serialize(obj.items)
    ELSE kvlm_serialize(obj.kvlm)

\* c(data) for the class c of fmt: [ok, obj].
TreeOf(t) == [ok |-> t.ok, obj |-> GitTree(t.items)]
CommitOf(k) == [ok |-> k.ok, obj |-> GitCommit(k.kvlm)]
TagOf(k) == [ok |-> k.ok, obj |-> GitTag(k.kvlm)]

deserialize(fmt, data) ==
    IF fmt = fmtBlob THEN [ok |-> TRUE, obj |-> GitBlob(data)]
    ELSE IF fmt = fmtTree THEN TreeOf(tree_parse(data))
    ELSE IF fmt = fmtCommit THEN CommitOf(kvlm_parse(data))
    ELSE TagOf(kvlm_parse(data))

-----------------------------------------------------------------------------
(* The files under .git.  A path is [dir, tmp, name]: dir is <<>> for the  *)
(* .git directory itself and the two hex digits of a fan-out directory of  *)
(* objects/; tmp marks a name made by tempfile.mkstemp.  A file is         *)
(* [data, ino]: ino tells a file that was replaced from the file that was  *)
(* there before, whatever their bytes.                                     *)

GitDir == <<>>
ObjPath(sha) == [dir |-> Slice(sha, 0, 2), tmp |-> FALSE, name |-> SliceFrom(sha, 2)]
TmpPath(dir, k) == [dir |-> dir, tmp |-> TRUE, name |-> <<k>>]
IndexPath == [dir |-> GitDir, tmp |-> FALSE, name |-> <<>>]

File(data, ino) == [data |-> data, ino |-> ino]

EmptyFs == [dirs |-> {GitDir}, files |-> <<>>, next |-> 1]

exists(f, path) == path \in DOMAIN f.files
dir_exists(f, dir) == dir \in f.dirs

\* os.makedirs(path)
makedirs(f, dir) == [f EXCEPT !.dirs = @ \cup {dir}]

\* tempfile.mkstemp(dir=dirname): a new, empty file under a name not in
\* use; its path is TmpPath(dir, f.next).
mkstemp(f, dir) ==
    [f EXCEPT !.files = @ @@ (TmpPath(dir, f.next) :> File(<<>>, f.next)),
              !.next = @ + 1]

\* f.write(data) on the open temp file
fwrite(f, path, data) == [f EXCEPT !.files[path].data = @ \o data]

\* os.replace(src, dst)
replace(f, src, dst) ==
    [f EXCEPT !.files =
        [q \in (DOMAIN @ \cup {dst}) \ {src} |-> IF q = dst THEN @[src] ELSE @[q]]]

\* os.remove(path)
remove(f, path) == [f EXCEPT !.files = [q \in DOMAIN @ \ {path} |-> @[q]]]

\* The framed bytes of an object: fmt SP len NUL data.
FrameOf(fmt, data) == fmt \o <<SP>> \o str(Len(data)) \o <<NUL>> \o data
Frame(obj) == FrameOf(obj.fmt, serialize(obj))

\* object_write without the test of line 95: the temp file is made, written
\* and renamed whether or not the object is there.
object_write_file_always(f1, path, tmp_path, result) ==
    replace(fwrite(mkstemp(f1, path.dir), tmp_path, compress(result)), tmp_path, path)

\* object_write, lines 95-109: the temp file is made, written and renamed
\* unless the object is there.
object_write_file(f1, path, tmp_path, result) ==
    IF exists(f1, path) THEN f1
    ELSE replace(fwrite(mkstemp(f1, path.dir), tmp_path, compress(result)), tmp_path, path)

\* repo_file(..., mkdir=True): the fan-out directory is made if missing.
object_write_dir(f, path) == IF dir_exists(f, path.dir) THEN f ELSE makedirs(f, path.dir)

object_write_at(f, path, result) ==
    object_write_file(object_write_dir(f, path), path, TmpPath(path.dir, f.next), result)

object_write_sha(f, result, sha, repository) ==
    [sha |-> sha, fs |-> IF repository THEN object_write_at(f, ObjPath(sha), result) ELSE f]

object_write_frame(f, result, repository) ==
    object_write_sha(f, result, sha1(result), repository)

\* object_write(obj, repository) run to its end: [sha, fs].
object_write(f, obj, repository) == object_write_frame(f, Frame(obj), repository)

\* object_read(repository, sha): status "ok" with the object, "none" for
\* the return of None, or "raise".  raw, x and y are the source's.
ReadError(error) == [status |-> "raise", error |-> error, obj |-> NoObject]
ReadNone == [status |-> "none", error |-> "", obj |-> NoObject]
ReadOk(obj) == [status |-> "ok", error |-> "", obj |-> obj]

\* Lines 75-82: the class of fmt, and its constructor on the payload.
object_read_class(fmt, d) ==
    IF fmt \notin Fmts THEN ReadError("Unknown type")
    ELSE IF ~d.ok THEN ReadError("AssertionError")
    ELSE ReadOk(d.obj)

\* object_read handing raw[y:] to the class, the NUL included.
object_read_size_from_nul(raw, x, y, size) ==
    IF size < 0 THEN ReadError("ValueError")
    ELSE IF size # Len(raw) - y - 1 THEN ReadError("Malformed object")
    ELSE object_read_class(Slice(raw, 0, x), deserialize(Slice(raw, 0, x), SliceFrom(raw, y)))

\* Lines 73-82: the test of the length, then the class.
object_read_size(raw, x, y, size) ==
    IF size < 0 THEN ReadError("ValueError")
    ELSE IF size # Len(raw) - y - 1 THEN ReadError("Malformed object")
    ELSE object_read_class(Slice(raw, 0, x), deserialize(Slice(raw, 0, x), SliceFrom(raw, y + 1)))

\* object_read taking the length from the bytes after the header and not
\* from the header.
object_read_nul_unchecked(raw, x, y) == object_read_size(raw, x, y, Len(raw) - y - 1)

object_read_nul(raw, x, y) == object_read_size(raw, x, y, int(Slice(raw, x, y)))

object_read_space(raw, x) == object_read_nul(raw, x, find(raw, NUL, x))

object_read_raw(raw) == object_read_space(raw, find(raw, SP, 0))

\* Lines 64-68.  Without the fan-out directory repo_file returns None and
\* os.path.isfile(None) raises TypeError; with it and without the file
\* object_read returns None.
object_read_path(f, path) ==
    IF ~dir_exists(f, path.dir) THEN ReadError("TypeError")
    ELSE IF ~exists(f, path) THEN ReadNone
    ELSE IF ~IsStream(f.files[path].data) THEN ReadError("zlib.error")
    ELSE object_read_raw(decompress(f.files[path].data))

object_read(f, sha) == object_read_path(f, ObjPath(sha))

\* object_hash(fd, fmt, repository): [ok, sha, fs].
HashDone(w) == [ok |-> TRUE, sha |-> w.sha, fs |-> w.fs]

object_hash_obj(f, fmt, d, repository) ==
    IF fmt \notin Fmts \/ ~d.ok THEN [ok |-> FALSE, sha |-> <<>>, fs |-> f]
    ELSE HashDone(object_write(f, d.obj, repository))

\* object_hash called with the default of its parameter repository, None:
\* the digest is computed and nothing is written.
object_hash_no_repository(f, data, fmt, repository) ==
    object_hash_obj(f, fmt, deserialize(fmt, data), FALSE)

object_hash(f, data, fmt, repository) ==
    object_hash_obj(f, fmt, deserialize(fmt, data), repository)

-----------------------------------------------------------------------------
(* index.py: the bytes of .git/index                                       *)

GitIndexEntry(ctime, mtime, dev, ino, mode_type, mode_perms, uid, gid, fsize, sha, flag_assume_valid, flag_stage, name) ==
    [ctime |-> ctime, mtime |-> mtime, dev |-> dev, ino |-> ino,
     mode_type |-> mode_type, mode_perms |-> mode_perms, uid |-> uid, gid |-> gid,
     fsize |-> fsize, sha |-> sha, flag_assume_valid |-> flag_assume_valid,
     flag_stage |-> flag_stage, name |-> name]

\* GitIndex(version, entries)
GitIndex(version, entries) == [version |-> version, entries |-> entries]

\* a & b and a | b on integers >= 0
RECURSIVE BitAnd(_, _)
BitAnd(a, b) ==
    IF a = 0 \/ b = 0 THEN 0
    ELSE (a % 2) * (b % 2) + 2 * BitAnd(a \div 2, b \div 2)

RECURSIVE BitOr(_, _)
BitOr(a, b) ==
    IF a = 0 THEN b
    ELSE IF b = 0 THEN a
    ELSE (IF a % 2 = 1 \/ b % 2 = 1 THEN 1 ELSE 0) + 2 * BitOr(a \div 2, b \div 2)

\* n.to_bytes(width, "big") for 0 <= n < 256^width
RECURSIVE to_bytes(_, _)
to_bytes(n, width) ==
    IF width = 0 THEN <<>> ELSE to_bytes(n \div 256, width - 1) \o <<n % 256>>

\* int.from_bytes(s, "big")
RECURSIVE from_bytes(_)
from_bytes(s) ==
    IF s = <<>> THEN 0 ELSE 256 * from_bytes(SubSeq(s, 1, Len(s) - 1)) + s[Len(s)]

\* b"DIRC"
DIRC == <<68, 73, 82, 67>>

\* 0xFFF: the name length that stands for "4095 bytes or more".
NameSentinel == 4095

\* The length of the fixed part of an entry.
EntryHeadLen == 62

\* The name length written as it is, whatever its size.
name_length_uncapped(bytes_len) == bytes_len

\* index_write, line 120
name_length(bytes_len) == IF bytes_len >= NameSentinel THEN NameSentinel ELSE bytes_len

\* index_write, lines 117-121: the two flag bytes
index_write_flags(e) ==
    BitOr(BitOr(IF e.flag_assume_valid THEN 32768 ELSE 0, e.flag_stage),
          name_length(Len(e.name)))

\* index_write, lines 105-123: what is written for an entry before its
\* padding.  The mode goes out as four bytes, the upper two of them zero.
index_write_entry(e) ==
    to_bytes(e.ctime[1], 4) \o to_bytes(e.ctime[2], 4)
        \o to_bytes(e.mtime[1], 4) \o to_bytes(e.mtime[2], 4)
        \o to_bytes(e.dev, 4) \o to_bytes(e.ino, 4)
        \o to_bytes(BitOr(e.mode_type * 4096, e.mode_perms), 4)
        \o to_bytes(e.uid, 4) \o to_bytes(e.gid, 4) \o to_bytes(e.fsize, 4)
        \o ShaToBytes(e.sha)
        \o to_bytes(index_write_flags(e), 2)
        \o e.name \o to_bytes(0, 1)

\* index_write, lines 125-128: the zero bytes after an entry that ends at
\* idx.
index_write_pad(idx) == IF idx % 8 # 0 THEN to_bytes(0, 8 - (idx % 8)) ELSE <<>>

\* index_write, lines 104-128: the writes of the loop, one chunk for each
\* entry; idx counts the bytes of the entries before.
RECURSIVE index_write_entries(_, _)
index_write_padded(entries, chunk, idx) ==
    <<chunk \o index_write_pad(idx)>>
        \o index_write_entries(Tail(entries), idx + Len(index_write_pad(idx)))

index_write_chunk(entries, chunk, idx) ==
    index_write_padded(entries, chunk, idx + Len(chunk))

index_write_entries(entries, idx) ==
    IF entries = <<>> THEN <<>>
    ELSE index_write_chunk(entries, index_write_entry(Head(entries)), idx)

\* index_write, lines 100-102
index_write_header(idx) == DIRC \o to_bytes(idx.version, 4) \o to_bytes(Len(idx.entries), 4)

\* The writes of index_write to its temp file, in order.
index_write_chunks(idx) == <<index_write_header(idx)>> \o index_write_entries(idx.entries, 0)

RECURSIVE Concat(_)
Concat(chunks) == IF chunks = <<>> THEN <<>> ELSE Head(chunks) \o Concat(Tail(chunks))

\* What index_write leaves in .git/index.
index_write_data(idx) == Concat(index_write_chunks(idx))

\* index_read: [ok, index]; ok is FALSE where an assertion fails or an
\* index is out of range.
ReadFail == [ok |-> FALSE, index |-> GitIndex(2, <<>>)]

RECURSIVE index_read_entries(_, _, _, _)

\* index_read, lines 54-75 and 88-89: the entry whose fixed part starts at
\* start and whose name is raw_name; idx is where the next entry is looked
\* for before rounding up to a multiple of 8.
index_read_append(content, start, count, entries, mode, flags, raw_name, idx) ==
    index_read_entries(content, 8 * ((idx + 7) \div 8), count - 1,
        Append(entries,
            GitIndexEntry(
                <<from_bytes(Slice(content, start, start + 4)),
                  from_bytes(Slice(content, start + 4, start + 8))>>,
                <<from_bytes(Slice(content, start + 8, start + 12)),
                  from_bytes(Slice(content, start + 12, start + 16))>>,
                from_bytes(Slice(content, start + 16, start + 20)),
                from_bytes(Slice(content, start + 20, start + 24)),
                mode \div 4096,
                BitAnd(mode, 511),
                from_bytes(Slice(content, start + 28, start + 32)),
                from_bytes(Slice(content, start + 32, start + 36)),
                from_bytes(Slice(content, start + 36, start + 40)),
                BytesToSha(Slice(content, start + 40, start + 60)),
                BitAnd(flags, 32768) # 0,
                BitAnd(flags, 12288),
                raw_name)))

\* lines 82-86: the name runs to the first NUL at or after idx + 0xFFF
index_read_long(content, start, count, entries, mode, flags, idx, null_idx) ==
    index_read_append(content, start, count, entries, mode, flags,
                      Slice(content, idx, null_idx), null_idx + 1)

\* lines 76-86
index_read_name(content, start, count, entries, mode, flags, name_len, idx) ==
    IF name_len < NameSentinel
    THEN IF idx + name_len >= Len(content) THEN ReadFail
         ELSE IF content[idx + name_len + 1] # NUL THEN ReadFail
         ELSE index_read_append(content, start, count, entries, mode, flags,
                                Slice(content, idx, idx + name_len), idx + name_len + 1)
    ELSE index_read_long(content, start, count, entries, mode, flags, idx,
                         find(content, NUL, idx + NameSentinel))

\* lines 60-75: the assertions on the reserved bytes, the mode and the flags
index_read_entry(content, start, count, entries, unused, mode, flags) ==
    IF unused # 0 \/ (mode \div 4096) \notin {8, 10, 14} \/ BitAnd(flags, 16384) # 0
    THEN ReadFail
    ELSE index_read_name(content, start, count, entries, mode, flags,
                         BitAnd(flags, NameSentinel), start + EntryHeadLen)

index_read_entries(content, idx, count, entries) ==
    IF count = 0 THEN [ok |-> TRUE, index |-> GitIndex(2, entries)]
    ELSE index_read_entry(content, idx, count, entries,
                          from_bytes(Slice(content, idx + 24, idx + 26)),
                          from_bytes(Slice(content, idx + 26, idx + 28)),
                          from_bytes(Slice(content, idx + 60, idx + 62)))

\* lines 42-49
index_read_raw(raw) ==
    IF Slice(raw, 0, 4) # DIRC THEN ReadFail
    ELSE IF from_bytes(Slice(raw, 4, 8)) # 2 THEN ReadFail
    ELSE index_read_entries(SliceFrom(raw, 12), 0, from_bytes(Slice(raw, 8, 12)), <<>>)

\* index_read(repository) on the files f: without a file it is GitIndex().
index_read(f) ==
    IF ~exists(f, IndexPath) THEN [ok |-> TRUE, index |-> GitIndex(2, <<>>)]
    ELSE index_read_raw(f.files[IndexPath].data)

\* index_write(r, index) run to its end on the files f.
index_write(f, idx) ==
    replace(fwrite(mkstemp(f, GitDir), TmpPath(GitDir, f.next), index_write_data(idx)),
            TmpPath(GitDir, f.next), IndexPath)

-----------------------------------------------------------------------------
(* Spec: the worktree and the commands add and rm, each run to its end     *)

\* The most entries the index is let grow to.
MaxIndex == 3

\* Paths are strings relative to the worktree: "" is the worktree itself
\* and a path that starts with ".." lies outside of it.
pathA == <<97>>
pathD == <<100>>
pathDB == <<100, Slash, 98>>
pathOutside == <<46, 46, Slash, 120>>
pathMissing == <<122, 122>>
pathGit == <<46, 103, 105, 116>>
WtFiles == {pathA, pathDB}
WtDirs == {<<>>, pathD}
GitFiles == {pathGit \o <<Slash, 72>>}
ArgLists ==
    {<<p>> : p \in WtFiles \cup WtDirs \cup {pathOutside, pathMissing}}
        \cup {<<pathA, pathDB>>, <<pathDB, pathD>>, <<pathA, pathMissing>>,
              <<pathA, pathOutside>>}

\* The content of a worktree file, by its id.
ContentIds == {1, 2}
ContentBytes(c) == <<96 + c>>

\* abspath.startswith(worktree) or abspath == repository.worktree
InWorktree(p) == ~startswith(p, <<46, 46>>)

\* p lies under the directory dir
Under(dir, p) == dir = <<>> \/ startswith(p, dir \o <<Slash>>)

isfile(w, p) == (p \in WtFiles /\ w[p] # 0) \/ p \in GitFiles
isdir(w, p) == p \in WtDirs \/ p = pathGit

\* The loop of rm over index.entries: an entry whose path is still in
\* abspaths is dropped and its path taken out of abspaths.
RmDrop(name, r) == [r EXCEPT !.remove = <<name>> \o @]
RmKeep(e, r) == [r EXCEPT !.kept = <<e>> \o @]

RECURSIVE RmScan(_, _)
RmScan(entries, abspaths) ==
    IF entries = <<>>
    THEN [kept |-> <<>>, remove |-> <<>>, left |-> abspaths]
    ELSE IF Head(entries).name \in abspaths
         THEN RmDrop(Head(entries).name,
                     RmScan(Tail(entries), abspaths \ {Head(entries).name}))
         ELSE RmKeep(Head(entries), RmScan(Tail(entries), abspaths))

\* The os.unlink loop of rm: it stops at the first path that is no file.
RECURSIVE Unlink(_, _)
Unlink(w, paths) ==
    IF paths = <<>> THEN [ok |-> TRUE, wt |-> w]
    ELSE IF w[Head(paths)] = 0 THEN [ok |-> FALSE, wt |-> w]
    ELSE Unlink([w EXCEPT ![Head(paths)] = 0], Tail(paths))

\* rm(repository, paths, delete, skip_missing) on worktree w and index
\* entries idx: ok is FALSE where it raises; wt and index are what it
\* leaves behind.
rm_write(idx, kept, u) ==
    [ok |-> u.ok, wt |-> u.wt, index |-> IF u.ok THEN kept ELSE idx]

rm_scanned(w, idx, delete, skip_missing, r) ==
    IF r.left # {} /\ ~skip_missing
    THEN [ok |-> FALSE, wt |-> w, index |-> idx]
    ELSE rm_write(idx, r.kept,
                  IF delete THEN Unlink(w, r.remove) ELSE [ok |-> TRUE, wt |-> w])

rm(w, idx, paths, delete, skip_missing) ==
    IF \E i \in 1..Len(paths) : ~InWorktree(paths[i])
    THEN [ok |-> FALSE, wt |-> w, index |-> idx]
    ELSE rm_scanned(w, idx, delete, skip_missing, RmScan(idx, Range(paths)))

\* os.walk(abspath) of add, the .git directory skipped.
WalkFiles(w, dir) == {p \in WtFiles : w[p] # 0 /\ Under(dir, p)}

\* What add puts into clean_paths for one path.
CleanPaths(w, p) ==
    IF isdir(w, p) THEN (IF p = pathGit THEN {} ELSE WalkFiles(w, p))
    ELSE IF Under(pathGit, p) THEN {} ELSE {p}

\* The entry add makes of a file: its blob is written, its stat recorded.
StagedEntry(sha, content, name) ==
    GitIndexEntry(<<1, 0>>, <<1, 0>>, 1, 1, 8, 420, 0, 0, Len(content), sha, FALSE, 0, name)

\* The loop of add over clean_paths, visited in the given order: h is the
\* result of object_hash for the first file.
RECURSIVE StageAll(_, _, _, _)
StageNext(w, entries, order, content, h) ==
    StageAll(h.fs, w, Append(entries, StagedEntry(h.sha, content, Head(order))), Tail(order))

StageAll(f, w, entries, order) ==
    IF order = <<>> THEN [ok |-> TRUE, fs |-> f, index |-> entries]
    ELSE StageNext(w, entries, order, ContentBytes(w[Head(order)]),
                   object_hash(f, ContentBytes(w[Head(order)]), fmtBlob, TRUE))

\* add(repository, paths): ok is FALSE where it raises.  clean_paths is a
\* set, so the order in which its files are staged is not determined.
add_removed(f, w, idx, paths, order, r) ==
    IF ~r.ok THEN [ok |-> FALSE, fs |-> f, index |-> idx]
    ELSE IF \E i \in 1..Len(paths) : ~isdir(w, paths[i]) /\ ~isfile(w, paths[i])
    THEN [ok |-> FALSE, fs |-> f, index |-> r.index]
    ELSE StageAll(f, w, r.index, order)

add(f, w, idx, paths, order) ==
    add_removed(f, w, idx, paths, order, rm(w, idx, paths, FALSE, TRUE))

AddOrders(w, paths) ==
    Perms(UNION {CleanPaths(w, paths[i]) :
                    i \in {j \in 1..Len(paths) : isdir(w, paths[j]) \/ isfile(w, paths[j])}})

-----------------------------------------------------------------------------
(* The idle values of each part's variables                                *)

NoCall == [op |-> "none", obj |-> NoObject, sha |-> <<>>, second |-> FALSE,
           before |-> EmptyFs, status |-> "none", error |-> "", result |-> NoObject]

NoIo == [idx |-> GitIndex(2, <<>>), op |-> "none", written |-> FALSE, result |-> ReadFail]

NoFind == [name |-> <<>>, status |-> "none", sha |-> [none |-> TRUE, data |-> <<>>],
           candidates |-> <<>>]

NoResolve == [ref |-> <<>>, frames |-> 0, status |-> "none", data |-> [none |-> TRUE, data |-> <<>>],
              chain |-> [n |-> 0, ends |-> FALSE]]

NoTree == [status |-> "none"]

NoAp == [op |-> "none"]

NoCommit == [op |-> "none", made |-> <<>>]

IdleAdd == wt = [p \in WtFiles |-> 0] /\ index = <<>> /\ raised = FALSE
IdleObj == subject = NoObject /\ firstSha = <<>> /\ last = NoCall
IdleIo == io = NoIo
IdleStep == pc = <<>> /\ loc = <<>>
IdleRef == refs = <<>> /\ found = NoFind /\ rr = NoResolve
IdleTree == tb = NoTree
IdleAp == ap = NoAp
IdleCommit == cm = NoCommit

-----------------------------------------------------------------------------
(* Spec: sequences of add and rm commands and of edits of the worktree     *)

RmDone(r) ==
    /\ wt' = r.wt
    /\ index' = r.index
    /\ raised' = ~r.ok
    /\ UNCHANGED <<fs, othersAdd>>

\* cmd_rm
Rm(paths) == RmDone(rm(wt, index, paths, TRUE, FALSE))

AddDone(r) ==
    /\ Len(r.index) <= MaxIndex
    /\ fs' = r.fs
    /\ index' = r.index
    /\ raised' = ~r.ok
    /\ UNCHANGED <<wt, othersAdd>>

\* cmd_add
Add(paths) == \E order \in AddOrders(wt, paths) : AddDone(add(fs, wt, index, paths, order))

\* The user edits the worktree between commands.
WriteFile(p, c) ==
    /\ wt[p] # c
    /\ wt' = [wt EXCEPT ![p] = c]
    /\ UNCHANGED <<fs, index, raised, othersAdd>>

DeleteFile(p) ==
    /\ wt[p] # 0
    /\ wt' = [wt EXCEPT ![p] = 0]
    /\ UNCHANGED <<fs, index, raised, othersAdd>>

Init ==
    /\ wt \in [WtFiles -> ContentIds \cup {0}]
    /\ index = <<>>
    /\ raised = FALSE
    /\ fs = EmptyFs
    /\ IdleObj /\ IdleIo /\ IdleStep /\ IdleRef /\ IdleTree
    /\ IdleAp /\ IdleCommit

Next ==
    \/ \E paths \in ArgLists : Add(paths)
    \/ \E paths \in ArgLists : Rm(paths)
    \/ \E p \in WtFiles, c \in ContentIds : WriteFile(p, c)
    \/ \E p \in WtFiles : DeleteFile(p)

Spec == Init /\ [][Next]_vars

\* C1: after any sequence of add and rm the index holds no two entries
\* with the same path.
C1_NoDuplicatePath ==
    \A i, j \in 1..Len(index) : index[i].name = index[j].name => i = j

-----------------------------------------------------------------------------
(* SpecObj: object_write and object_read, each run to its end, on one      *)
(* object drawn from every kind and on two other blobs                     *)

\* Bounds: the longest blob payload, the most leaves of a tree, and the
\* most objects a run stores.
MaxBlobLen == 2
MaxLeaves == 2
MaxWrites == 2

BlobBytes == {NUL, SP, 97}
BlobPayloads == UNION {[1..n -> BlobBytes] : n \in 0..MaxBlobLen}

modeFile == <<49, 48, 48, 54, 52, 52>>
modeDir == <<48, 52, 48, 48, 48, 48>>
modeLink == <<49, 50, 48, 48, 48, 48>>
shaOne == [i \in 1..DigestHexLen |-> IF i = DigestHexLen THEN 1 ELSE 0]
shaTwo == [i \in 1..DigestHexLen |-> (i + 9) % 16]
Leaves ==
    {GitTreeLeaf(modeFile, <<97>>, shaOne), GitTreeLeaf(modeDir, <<97>>, shaTwo),
     GitTreeLeaf(modeLink, <<97, 46>>, shaTwo)}
TreeItems == UNION {[1..n -> Leaves] : n \in 0..MaxLeaves}

\* A tree as git writes it, with the five digit mode 40000: object_hash
\* parses it before it is written.
rawGitTree == <<52, 48, 48, 48, 48, SP, 100, NUL>> \o ShaToBytes(shaTwo)

keyTree == <<116, 114, 101, 101>>
keyParent == <<112, 97, 114, 101, 110, 116>>
keyObject == <<111, 98, 106, 101, 99, 116>>
Kvlms ==
    {<<KvMessage(<<>>)>>,
     <<KvItem(keyTree, <<49>>), KvMessage(<<104, 105, NL>>)>>,
     <<KvItem(keyTree, <<49>>), KvList(keyParent, <<<<50>>, <<51>>>>),
       KvItem(<<97>>, <<120, NL, 121, SP, 122>>), KvMessage(<<104, NL, NL, SP, 105, NL>>)>>}

Subjects ==
    {GitBlob(p) : p \in BlobPayloads} \cup {GitTree(t) : t \in TreeItems}
        \cup {deserialize(fmtTree, rawGitTree).obj}
        \cup {GitCommit(k) : k \in Kvlms}
        \cup {GitTag(<<KvItem(keyObject, <<49>>), KvMessage(<<116, NL>>)>>)}

Others == {GitBlob(<<98>>), GitBlob(<<99, 99>>)}

\* A digest no object of a run has.
AbsentSha == [i \in 1..DigestHexLen |-> 15]

\* The (kind, payload) of an object.
KindPayload(obj) == [fmt |-> obj.fmt, payload |-> serialize(obj)]

ObjWriteDone(obj, key, w) ==
    /\ fs' = w.fs
    /\ firstSha' = IF key \in DOMAIN firstSha THEN firstSha ELSE firstSha @@ (key :> w.sha)
    /\ last' = [op |-> "write", obj |-> obj, sha |-> w.sha,
                second |-> key \in DOMAIN firstSha, before |-> fs,
                status |-> "ok", error |-> "", result |-> NoObject]
    /\ UNCHANGED <<subject, othersObj>>

ObjWrite(obj) ==
    /\ fs.next <= MaxWrites
    /\ ObjWriteDone(obj, KindPayload(obj), object_write(fs, obj, TRUE))

ObjReadDone(sha, r) ==
    /\ last' = [op |-> "read", obj |-> NoObject, sha |-> sha, second |-> FALSE,
                before |-> fs, status |-> r.status, error |-> r.error,
                result |-> r.obj]
    /\ UNCHANGED <<fs, subject, firstSha, othersObj>>

ObjRead(sha) == ObjReadDone(sha, object_read(fs, sha))

InitObj ==
    /\ subject \in Subjects
    /\ firstSha = <<>>
    /\ last = NoCall
    /\ fs = EmptyFs
    /\ IdleAdd /\ IdleIo /\ IdleStep /\ IdleRef /\ IdleTree
    /\ IdleAp /\ IdleCommit

NextObj ==
    \/ \E obj \in {subject} \cup Others : ObjWrite(obj)
    \/ \E sha \in {firstSha[k] : k \in DOMAIN firstSha} \cup {AbsentSha} : ObjRead(sha)

SpecObj == InitObj /\ [][NextObj]_vars

C3_SecondWriteIdempotent ==
    (last.op = "write" /\ last.second)
        => /\ last.sha = firstSha[KindPayload(last.obj)]
           /\ fs = last.before

C3_Witness ==
    /\ last.op = "write"
    /\ last.second
    /\ last.obj = subject
    /\ subject.fmt = fmtCommit

-----------------------------------------------------------------------------
(* SpecIndexIO: index_write and index_read, each run to its end, on one    *)
(* index                                                                   *)

\* The most entries of an index.
MaxEntries == 2

LongName(n) == [i \in 1..n |-> 97]

IoEntries ==
    {GitIndexEntry(<<1, 2>>, <<3, 4>>, 5, 6, 8, 420, 7, 8, 9, shaOne, FALSE, 0, <<97>>),
     GitIndexEntry(<<16909060, 999999999>>, <<2147483647, 0>>, 65536, 258, 10, 511,
                   1000, 0, 2147483647, shaTwo, TRUE, 12288, pathDB),
     GitIndexEntry(<<0, 0>>, <<0, 0>>, 0, 0, 14, 0, 0, 0, 0, shaOne, FALSE, 4096,
                   <<100, Slash, 195, 169>>),
     GitIndexEntry(<<1, 0>>, <<1, 0>>, 1, 1, 8, 420, 0, 0, 1, shaTwo, FALSE, 0,
                   LongName(NameSentinel - 1)),
     GitIndexEntry(<<1, 0>>, <<1, 0>>, 1, 1, 8, 493, 0, 0, 1, shaOne, TRUE, 8192,
                   LongName(NameSentinel)),
     GitIndexEntry(<<1, 0>>, <<1, 0>>, 1, 1, 8, 420, 0, 0, 1, shaTwo, FALSE, 0,
                   LongName(NameSentinel + 1))}

Indexes == {GitIndex(2, s) : s \in UNION {[1..n -> IoEntries] : n \in 0..MaxEntries}}

\* index_write(repository, io.idx)
IoWrite ==
    /\ fs.next <= MaxWrites
    /\ fs' = index_write(fs, io.idx)
    /\ io' = [io EXCEPT !.op = "write", !.written = TRUE]
    /\ UNCHANGED othersIo

\* index_read(repository)
IoRead ==
    /\ io' = [io EXCEPT !.op = "read", !.result = index_read(fs)]
    /\ UNCHANGED <<fs, othersIo>>

InitIo ==
    /\ io \in {[NoIo EXCEPT !.idx = i] : i \in Indexes}
    /\ fs = EmptyFs
    /\ IdleAdd /\ IdleObj /\ IdleStep /\ IdleRef /\ IdleTree
    /\ IdleAp /\ IdleCommit

NextIo == IoWrite \/ IoRead

SpecIndexIO == InitIo /\ [][NextIo]_vars

\* C10: index_read after index_write returns the version and the entries
\* that were written, field for field and in the same order.
C10_IndexRoundTrip ==
    (io.op = "read" /\ io.written) => (io.result.ok /\ io.result.index = io.idx)

C10_Witness ==
    /\ io.op = "read"
    /\ io.written
    /\ io.result.ok
    /\ Len(io.idx.entries) = 2
    /\ Len(io.idx.entries[1].name) > NameSentinel
    /\ Len(io.idx.entries[2].name) = NameSentinel

-----------------------------------------------------------------------------
(* object_write and index_write step by step: one action for each call on  *)
(* the file system.  pc[p] is where process p stands and loc[p] holds its  *)
(* locals: the target path, the temp path, the writes still to make to the *)
(* temp file, and, for the properties, what the target held when the call  *)
(* began and what the call is to leave there.                              *)

Absent == [there |-> FALSE, data |-> <<>>]
Present(data) == [there |-> TRUE, data |-> data]

\* What a reader finds at a path.
Content(f, path) == IF exists(f, path) THEN Present(f.files[path].data) ELSE Absent

Locals(op, sha, path, chunks, f) ==
    [op |-> op, sha |-> sha, path |-> path, tmp_path |-> path, chunks |-> chunks,
     prev |-> Content(f, path), new |-> Concat(chunks)]

NoLocals == Locals("none", <<>>, IndexPath, <<>>, EmptyFs)

\* The bytes of f.write(data) reach the file in two pieces.
TwoPieces(data) ==
    <<SubSeq(data, 1, Len(data) \div 2), SubSeq(data, Len(data) \div 2 + 1, Len(data))>>

Goto(p, label) == pc' = [pc EXCEPT ![p] = label]

\* object_write, lines 88-90
WriteCallSha(p, result, sha) ==
    /\ loc' = [loc EXCEPT ![p] = Locals("object_write", sha, ObjPath(sha),
                                        TwoPieces(compress(result)), fs)]
    /\ Goto(p, "dir")
    /\ UNCHANGED <<fs, othersStep>>

WriteCall(p, obj) ==
    /\ pc[p] = "idle"
    /\ fs.next <= MaxWrites
    /\ WriteCallSha(p, Frame(obj), sha1(Frame(obj)))

\* repo_dir, line 51: os.path.exists(path) for the fan-out directory
DirExists(p) ==
    /\ pc[p] = "dir"
    /\ Goto(p, IF dir_exists(fs, loc[p].path.dir) THEN "exists" ELSE "makedirs")
    /\ UNCHANGED <<fs, loc, othersStep>>

\* repo_dir, line 57: os.makedirs(path) raises FileExistsError where the
\* directory is there.
Makedirs(p) ==
    /\ pc[p] = "makedirs"
    /\ IF dir_exists(fs, loc[p].path.dir)
       THEN Goto(p, "raised") /\ UNCHANGED fs
       ELSE Goto(p, "exists") /\ fs' = makedirs(fs, loc[p].path.dir)
    /\ UNCHANGED <<loc, othersStep>>

\* object_write, line 95
PathExists(p) ==
    /\ pc[p] = "exists"
    /\ Goto(p, IF exists(fs, loc[p].path) THEN "done" ELSE "mkstemp")
    /\ UNCHANGED <<fs, loc, othersStep>>

\* index_write, lines 93-95
IndexCall(p, idx) ==
    /\ pc[p] = "idle"
    /\ fs.next <= MaxWrites
    /\ loc' = [loc EXCEPT ![p] = Locals("index_write", <<>>, IndexPath,
                                        index_write_chunks(idx), fs)]
    /\ Goto(p, "mkstemp")
    /\ UNCHANGED <<fs, othersStep>>

\* The file opened for writing is the target itself.
OpenInPlace(p) ==
    /\ pc[p] = "mkstemp"
    /\ fs' = [fs EXCEPT !.files = [q \in DOMAIN @ \cup {loc[p].path} |->
                                     IF q = loc[p].path THEN File(<<>>, fs.next) ELSE @[q]],
                        !.next = @ + 1]
    /\ Goto(p, "write")
    /\ UNCHANGED <<loc, othersStep>>

\* object_write, line 98; index_write, line 96
Mkstemp(p) ==
    /\ pc[p] = "mkstemp"
    /\ fs' = mkstemp(fs, loc[p].path.dir)
    /\ loc' = [loc EXCEPT ![p].tmp_path = TmpPath(loc[p].path.dir, fs.next)]
    /\ Goto(p, "write")
    /\ UNCHANGED othersStep

\* object_write, line 102; index_write, lines 100-127
FileWrite(p) ==
    /\ pc[p] = "write"
    /\ loc[p].chunks # <<>>
    /\ fs' = fwrite(fs, loc[p].tmp_path, Head(loc[p].chunks))
    /\ loc' = [loc EXCEPT ![p].chunks = Tail(@)]
    /\ UNCHANGED <<pc, othersStep>>

\* object_write, line 104; index_write, line 130
Replace(p) ==
    /\ pc[p] = "write"
    /\ loc[p].chunks = <<>>
    /\ fs' = replace(fs, loc[p].tmp_path, loc[p].path)
    /\ Goto(p, "done")
    /\ UNCHANGED <<loc, othersStep>>

\* The process dies between two steps: its files stay as they are.
Crash(p) ==
    /\ pc[p] \notin {"idle", "done", "raised", "crashed"}
    /\ Goto(p, "crashed")
    /\ UNCHANGED <<fs, loc, othersStep>>

\* The call is over; another may begin.
Return(p) ==
    /\ pc[p] \in {"done", "raised", "crashed"}
    /\ pc' = [pc EXCEPT ![p] = "idle"]
    /\ loc' = [loc EXCEPT ![p] = NoLocals]
    /\ UNCHANGED <<fs, othersStep>>

Procs == DOMAIN pc

-----------------------------------------------------------------------------
(* SpecCrash: one process makes calls of object_write and index_write and  *)
(* may die between any two steps of a call                                 *)

CrashObjects == {GitBlob(<<97>>), GitBlob(<<98, 99>>)}

entryA == StagedEntry(shaOne, <<97>>, pathA)
entryDB == StagedEntry(shaTwo, <<98, 99>>, pathDB)
CrashIndexes == {GitIndex(2, <<>>), GitIndex(2, <<entryA>>), GitIndex(2, <<entryA, entryDB>>)}

InitCrash ==
    /\ pc = [p \in {1} |-> "idle"]
    /\ loc = [p \in {1} |-> NoLocals]
    /\ fs = EmptyFs
    /\ IdleAdd /\ IdleObj /\ IdleIo /\ IdleRef /\ IdleTree
    /\ IdleAp /\ IdleCommit

NextCrash ==
    \/ \E p \in Procs, obj \in CrashObjects : WriteCall(p, obj)
    \/ \E p \in Procs, idx \in CrashIndexes : IndexCall(p, idx)
    \/ \E p \in Procs : DirExists(p)
    \/ \E p \in Procs : Makedirs(p)
    \/ \E p \in Procs : PathExists(p)
    \/ \E p \in Procs : Mkstemp(p)
    \/ \E p \in Procs : FileWrite(p)
    \/ \E p \in Procs : Replace(p)
    \/ \E p \in Procs : Crash(p)
    \/ \E p \in Procs : Return(p)

SpecCrash == InitCrash /\ [][NextCrash]_vars

\* The complete contents a file that is no temp file may have.
CompleteAt(path) ==
    IF path = IndexPath THEN {index_write_data(idx) : idx \in CrashIndexes}
    ELSE {compress(Frame(obj)) : obj \in {o \in CrashObjects : ObjPath(sha1(Frame(o))) = path}}

\* C4: whatever step a call of object_write or index_write has reached, and
\* whether or not the process died there, the path the call writes holds
\* what it held before the call (or nothing) or the complete new content,
\* and every object file and the index file are complete.
C4_NoPartialFile ==
    /\ \A p \in Procs :
           pc[p] # "idle" => Content(fs, loc[p].path) \in {loc[p].prev, Present(loc[p].new)}
    /\ \A path \in DOMAIN fs.files : ~path.tmp => fs.files[path].data \in CompleteAt(path)

\* A process died with its temp file half written while the index file
\* holds an earlier index.
C4_Witness ==
    /\ pc[1] = "crashed"
    /\ loc[1].op = "index_write"
    /\ Len(loc[1].chunks) = 1
    /\ loc[1].prev.there
    /\ loc[1].prev.data # loc[1].new
    /\ exists(fs, loc[1].tmp_path)
    /\ fs.files[loc[1].tmp_path].data # <<>>

-----------------------------------------------------------------------------
(* SpecRace: two processes run object_write for the same object            *)

RaceObjects == {GitBlob(<<97>>), GitTree(<<>>), GitCommit(<<KvMessage(<<104, NL>>)>>)}

RaceStores(obj) ==
    {EmptyFs,
     makedirs(EmptyFs, ObjPath(sha1(Frame(obj))).dir),
     object_write(EmptyFs, obj, TRUE).fs}

InitRace ==
    /\ subject \in RaceObjects
    /\ fs \in RaceStores(subject)
    /\ pc = [p \in {1, 2} |-> "idle"]
    /\ loc = [p \in {1, 2} |-> NoLocals]
    /\ firstSha = <<>> /\ last = NoCall
    /\ IdleAdd /\ IdleIo /\ IdleRef /\ IdleTree
    /\ IdleAp /\ IdleCommit

NextRace ==
    \/ \E p \in Procs : WriteCall(p, subject)
    \/ \E p \in Procs : DirExists(p)
    \/ \E p \in Procs : Makedirs(p)
    \/ \E p \in Procs : PathExists(p)
    \/ \E p \in Procs : Mkstemp(p)
    \/ \E p \in Procs : FileWrite(p)
    \/ \E p \in Procs : Replace(p)

SpecRace == InitRace /\ [][NextRace]_vars

\* C5: when both calls of object_write for the same object are over, both
\* have returned, neither has raised, they return the same digest and the
\* object file holds the complete compressed frame.
C5_BothComplete ==
    (\A p \in Procs : pc[p] \in {"done", "raised"})
        => /\ \A p \in Procs : pc[p] = "done"
           /\ \A p, q \in Procs : loc[p].sha = loc[q].sha
           /\ \A p \in Procs : Content(fs, loc[p].path) = Present(loc[p].new)

-----------------------------------------------------------------------------
(* SpecAddRace: two processes run add, each on a path of its own.  The     *)
(* steps of a call are its reads and writes of .git/index; loc[p].idx is   *)
(* the index the process holds in memory.                                  *)

AddLocals(paths, idx) == [paths |-> paths, idx |-> idx]

\* The entries add appends to and writes back take the place of whatever the
\* file holds by then.
add_merged(current, held) == current

\* add, lines 193-207: the entries add appends to are those it read at
\* line 193.
add_held(current, held) == held

\* rm, line 137: index_read
RmRead(p) ==
    /\ pc[p] = "rm_read"
    /\ loc' = [loc EXCEPT ![p].idx = index]
    /\ Goto(p, "rm_write")
    /\ UNCHANGED <<wt, index, fs, othersAddRace>>

\* rm, lines 138-161, and add, lines 165-192: the index without the named
\* paths is written, then add looks at its paths and raises for one that
\* is no file and no directory.
RmWriteDone(p, r) ==
    /\ index' = r.index
    /\ Goto(p, IF r.ok THEN "add_read" ELSE "raised")
    /\ UNCHANGED <<wt, loc, fs, othersAddRace>>

RmWrite(p) ==
    /\ pc[p] = "rm_write"
    /\ RmWriteDone(p, add_removed(fs, wt, index, loc[p].paths, <<>>,
                                  rm(wt, loc[p].idx, loc[p].paths, FALSE, TRUE)))

\* add, line 193: index_read
AddRead(p) ==
    /\ pc[p] = "add_read"
    /\ loc' = [loc EXCEPT ![p].idx = index]
    /\ Goto(p, "add_write")
    /\ UNCHANGED <<wt, index, fs, othersAddRace>>

\* add, lines 194-207: the files are hashed, their entries appended and the
\* index written.
AddWriteDone(p, r) ==
    /\ fs' = r.fs
    /\ index' = r.index
    /\ Goto(p, "done")
    /\ UNCHANGED <<wt, loc, othersAddRace>>

AddWrite(p) ==
    /\ pc[p] = "add_write"
    /\ \E order \in AddOrders(wt, loc[p].paths) :
           AddWriteDone(p, StageAll(fs, wt, add_held(index, loc[p].idx), order))

InitAddRace ==
    /\ wt \in [WtFiles -> ContentIds]
    /\ index \in {<<>>, <<entryA>>, <<entryDB>>, <<entryDB, entryA>>}
    /\ raised = FALSE
    /\ fs = EmptyFs
    /\ pc = [p \in {1, 2} |-> "rm_read"]
    /\ loc = <<AddLocals(<<pathA>>, <<>>), AddLocals(<<pathDB>>, <<>>)>>
    /\ IdleObj /\ IdleIo /\ IdleRef /\ IdleTree
    /\ IdleAp /\ IdleCommit

NextAddRace ==
    \/ \E p \in Procs : RmRead(p)
    \/ \E p \in Procs : RmWrite(p)
    \/ \E p \in Procs : AddRead(p)
    \/ \E p \in Procs : AddWrite(p)

SpecAddRace == InitAddRace /\ [][NextAddRace]_vars

\* C6: no step of add holds the index between its read and its write: when
\* both calls are over, neither has raised and the index is what one of
\* them read at line 193 followed by that call's own entry, whatever the
\* other call wrote in between.
C6_LastWriterWins ==
    (\A p \in Procs : pc[p] \in {"done", "raised"})
        => /\ \A p \in Procs : pc[p] = "done"
           /\ \E p \in Procs :
                  /\ Len(index) = Len(loc[p].idx) + 1
                  /\ SubSeq(index, 1, Len(loc[p].idx)) = loc[p].idx
                  /\ index[Len(index)].name = loc[p].paths[1]

\* Both calls are over without error and the index, empty at first, holds
\* one of the two paths only.
C6_Witness ==
    /\ \A p \in Procs : pc[p] = "done"
    /\ Len(index) = 1
    /\ \E p \in Procs : loc[p].idx = <<>> /\ index[1].name = loc[p].paths[1]
    /\ fs.next > 2

-----------------------------------------------------------------------------
(* repo.py and objects.py: refs and names.  `refs` maps the path of a ref  *)
(* file under .git, as a string, to the text of the file.  A digest is a   *)
(* string of hex digits here, as hexdigest returns it.                     *)

strHEAD == <<72, 69, 65, 68>>
strRefs == <<114, 101, 102, 115, Slash>>
strTags == strRefs \o <<116, 97, 103, 115, Slash>>
strHeads == strRefs \o <<104, 101, 97, 100, 115, Slash>>
strRemotes == strRefs \o <<114, 101, 109, 111, 116, 101, 115, Slash>>
strRefColon == <<114, 101, 102, 58, SP>>
strMaster == <<109, 97, 115, 116, 101, 114>>

\* The hex digit of a value 0..15, and the value of a hex digit of either
\* case.
HexChar(n) == IF n < 10 THEN Zero + n ELSE 87 + n
HexVal(c) == IF c >= 97 THEN c - 87 ELSE IF c >= 65 THEN c - 55 ELSE c - Zero
IsHexChar(c) == IsDigit(c) \/ (c >= 97 /\ c <= 102) \/ (c >= 65 /\ c <= 70)

HexStr(digits) == [i \in 1..Len(digits) |-> HexChar(digits[i])]
HexVals(s) == [i \in 1..Len(s) |-> HexVal(s[i])]

\* name.lower()
lower(s) == [i \in 1..Len(s) |-> IF s[i] >= 65 /\ s[i] <= 90 THEN s[i] + 32 ELSE s[i]]

\* hashRE.match(name), for names without a newline
hashRE(name) ==
    Len(name) >= 4 /\ Len(name) <= DigestHexLen /\ \A i \in 1..Len(name) : IsHexChar(name[i])

\* not name.strip()
IsBlank(name) == \A i \in 1..Len(name) : name[i] \in {SP, NL, 9, 13}

\* A value that may be None.
None == [none |-> TRUE, data |-> <<>>]
Some(data) == [none |-> FALSE, data |-> data]

\* `if x:` for a string or None
Truthy(r) == ~r.none /\ r.data # <<>>

\* ref_resolve(repository, ref), run to its end: None or the text of the
\* last file of the chain without its last character.
RECURSIVE ref_resolve(_, _)
ref_resolve_data(rfs, data) ==
    IF startswith(data, strRefColon) THEN ref_resolve(rfs, SliceFrom(data, 5))
    ELSE Some(data)

ref_resolve(rfs, ref) ==
    IF ref \notin DOMAIN rfs THEN None
    ELSE ref_resolve_data(rfs, Slice(rfs[ref], 0, -1))

\* ref_create(repository, ref_name, sha)
ref_create(rfs, ref_name, sha) ==
    [q \in DOMAIN rfs \cup {strRefs \o ref_name} |->
        IF q = strRefs \o ref_name THEN sha \o <<NL>> ELSE rfs[q]]

\* The members of a finite set in some order: os.listdir gives no order.
RECURSIVE Listed(_)
ListedFrom(S, x) == <<x>> \o Listed(S \ {x})
Listed(S) == IF S = {} THEN <<>> ELSE ListedFrom(S, CHOOSE x \in S : TRUE)

\* object_resolve, lines 144-151: the objects whose digest starts with
\* name.  The names mkstemp makes are no hex strings and match no name.
object_resolve_prefix(f, name, prefix) ==
    IF ~dir_exists(f, prefix) THEN <<>>
    ELSE Listed({Some(HexStr(q.dir \o q.name)) :
                    q \in {p \in DOMAIN f.files :
                              /\ ~p.tmp
                              /\ p.dir = prefix
                              /\ startswith(HexStr(p.name), SliceFrom(name, 2))}})

\* candidates.append(x) if x
AppendIf(list, r) == IF Truthy(r) THEN Append(list, r) ELSE list

\* object_resolve, lines 152-158
object_resolve_refs(rfs, name, candidates) ==
    AppendIf(AppendIf(AppendIf(candidates,
                               ref_resolve(rfs, strTags \o name)),
                      ref_resolve(rfs, strHeads \o name)),
             ref_resolve(rfs, strRemotes \o name))

\* object_resolve(repository, name): none where it returns None, else the
\* list of candidates.
NoList == [none |-> TRUE, list |-> <<>>]
List(list) == [none |-> FALSE, list |-> list]

object_resolve(f, rfs, name) ==
    IF IsBlank(name) THEN NoList
    ELSE IF name = strHEAD THEN List(<<ref_resolve(rfs, strHEAD)>>)
    ELSE IF hashRE(name)
    THEN List(object_resolve_refs(rfs, lower(name),
                 object_resolve_prefix(f, lower(name), HexVals(Slice(lower(name), 0, 2)))))
    ELSE List(object_resolve_refs(rfs, name, <<>>))

\* object_find(repository, name) without fmt, lines 114-121: status is
\* "NotFound" or "Ambiguous" for the two exceptions, else "ok" with what
\* is returned.
object_find_list(r) ==
    IF r.none \/ r.list = <<>> THEN [status |-> "NotFound", sha |-> None]
    ELSE IF Len(r.list) > 1 THEN [status |-> "Ambiguous", sha |-> None]
    ELSE [status |-> "ok", sha |-> r.list[1]]

object_find(f, rfs, name) == object_find_list(object_resolve(f, rfs, name))

-----------------------------------------------------------------------------
(* SpecFind: objects are written, refs created and names looked up          *)

\* The most refs under refs/.
MaxRefs == 2

\* Three blobs; the digests of the first two start with the same four
\* digits.
FindObjects == {GitBlob(<<97>>), GitBlob(<<112, 118, 121>>), GitBlob(<<98, 99>>)}

strV1 == <<118, 49>>
shaBC == HexStr(sha1(Frame(GitBlob(<<98, 99>>))))
shaA == HexStr(sha1(Frame(GitBlob(<<97>>))))

\* The digests refs are created with.
FindShas == {shaA, shaBC}

\* A name that is no hex string, a blank one, HEAD, a prefix of two
\* digests in either case, a full digest, a prefix of one digest, and a
\* hex string that starts no digest.
FindNames ==
    {strV1, <<SP>>, strHEAD, strMaster, Slice(shaA, 0, 4), <<48, 65, 48, 48>>, shaBC,
     Slice(shaBC, 0, 5), <<102, 102, 102, 102>>}

\* The names refs are created under, below refs/.
RefNames ==
    {<<116, 97, 103, 115, Slash>> \o strV1,
     <<104, 101, 97, 100, 115, Slash>> \o strV1,
     <<114, 101, 109, 111, 116, 101, 115, Slash>> \o strV1,
     <<104, 101, 97, 100, 115, Slash>> \o Slice(shaBC, 0, 5),
     <<104, 101, 97, 100, 115, Slash>> \o strMaster}

FindWrite(obj) ==
    /\ ~exists(fs, ObjPath(sha1(Frame(obj))))
    /\ fs' = object_write(fs, obj, TRUE).fs
    /\ UNCHANGED <<refs, found, othersFind>>

RefCreate(ref_name, sha) ==
    /\ strRefs \o ref_name \in DOMAIN refs \/ Cardinality(DOMAIN refs) <= MaxRefs
    /\ refs' = ref_create(refs, ref_name, sha)
    /\ UNCHANGED <<fs, found, othersFind>>

\* found.candidates is what object_resolve gave the call.
FindDone(name, candidates, r) ==
    /\ found' = [name |-> name, status |-> r.status, sha |-> r.sha,
                 candidates |-> candidates]
    /\ UNCHANGED <<fs, refs, othersFind>>

Find(name) ==
    FindDone(name, object_resolve(fs, refs, name).list, object_find(fs, refs, name))

\* repo_create, lines 80-81: HEAD names the branch master, which has no
\* ref yet.
InitFind ==
    /\ fs = EmptyFs
    /\ refs = (strHEAD :> (strRefColon \o strHeads \o strMaster \o <<NL>>))
    /\ found = NoFind
    /\ rr = NoResolve
    /\ IdleAdd /\ IdleObj /\ IdleIo /\ IdleStep /\ IdleTree
    /\ IdleAp /\ IdleCommit

NextFind ==
    \/ \E obj \in FindObjects : FindWrite(obj)
    \/ \E ref_name \in RefNames, sha \in FindShas : RefCreate(ref_name, sha)
    \/ \E name \in FindNames : Find(name)

SpecFind == InitFind /\ [][NextFind]_vars

\* The distinct digests the name of the last object_find matched.
Matched == {c.data : c \in Range(found.candidates)}

DecidedBy(digests, status, sha) ==
    /\ digests = {} => status = "NotFound"
    /\ Cardinality(digests) > 1 => status = "Ambiguous"
    /\ Cardinality(digests) = 1 => status = "ok" /\ ~sha.none /\ sha.data \in digests

\* C7: object_find of a name other than HEAD, without a kind, is decided by
\* the set of distinct digests the name matches: NotFound for none,
\* Ambiguous for more than one, else the one digest, by however many routes
\* it is matched.
C7_DecidedBySet ==
    (found.status # "none" /\ found.name # strHEAD)
        => DecidedBy(Matched, found.status, found.sha)

-----------------------------------------------------------------------------
(* SpecRef: ref_resolve call by call.  rr.frames counts the calls of       *)
(* ref_resolve that have not returned; a return is handed up through all   *)
(* of them unchanged.                                                      *)

\* The depth at which CPython raises RecursionError (sys.getrecursionlimit()
\* as the interpreter starts).  The frames of the callers of ref_resolve and
\* of the calls it makes come on top of its own and are left out here, so
\* the program gives up some links before this.
RecursionLimit == 1000

\* The ref k links from the end of a chain.
ChainRef(k) == strHeads \o str(k)
ChainIndex(ref) == DigitsValue(SliceFrom(ref, Len(strHeads)))

\* A chain of n symbolic refs that ends at ref 0, which holds a digest or is
\* missing.  The files of the chain stay as they are while ref_resolve
\* runs, so rr.chain names the chain and these two give os.path.isfile and
\* fp.read() on it.
Chain(n, ends) == [n |-> n, ends |-> ends]

ChainIsFile(chain, ref) ==
    /\ startswith(ref, strHeads)
    /\ ChainIndex(ref) \in (IF chain.ends THEN 0 ELSE 1)..chain.n
    /\ ref = ChainRef(ChainIndex(ref))

ChainRead(chain, ref) ==
    IF ChainIndex(ref) = 0 THEN shaBC \o <<NL>>
    ELSE strRefColon \o ChainRef(ChainIndex(ref) - 1) \o <<NL>>

ChainLens == {0, 1, 2, 3, RecursionLimit - 2, RecursionLimit}

\* ref_resolve, lines 130-132: no file
ResolveMissing ==
    /\ rr.status = "running"
    /\ rr.frames <= RecursionLimit
    /\ ~ChainIsFile(rr.chain, rr.ref)
    /\ rr' = [rr EXCEPT !.status = "returned", !.data = None]
    /\ UNCHANGED <<refs, othersRef>>

\* ref_resolve, lines 133-136: a symbolic ref, and the call for its target
ResolveFollow ==
    /\ rr.status = "running"
    /\ rr.frames <= RecursionLimit
    /\ ChainIsFile(rr.chain, rr.ref)
    /\ startswith(Slice(ChainRead(rr.chain, rr.ref), 0, -1), strRefColon)
    /\ rr' = [rr EXCEPT !.ref = SliceFrom(Slice(ChainRead(rr.chain, rr.ref), 0, -1), 5),
                        !.frames = @ + 1]
    /\ UNCHANGED <<refs, othersRef>>

\* ref_resolve, lines 133-138: any other text
ResolveData ==
    /\ rr.status = "running"
    /\ rr.frames <= RecursionLimit
    /\ ChainIsFile(rr.chain, rr.ref)
    /\ ~startswith(Slice(ChainRead(rr.chain, rr.ref), 0, -1), strRefColon)
    /\ rr' = [rr EXCEPT !.status = "returned",
                        !.data = Some(Slice(ChainRead(rr.chain, rr.ref), 0, -1))]
    /\ UNCHANGED <<refs, othersRef>>

\* The call at line 136 is one too many for the interpreter.
ResolveOverflow ==
    /\ rr.status = "running"
    /\ rr.frames > RecursionLimit
    /\ rr' = [rr EXCEPT !.status = "raised"]
    /\ UNCHANGED <<refs, othersRef>>

InitRef ==
    /\ \E n \in ChainLens, ends \in BOOLEAN :
           rr = [ref |-> ChainRef(n), frames |-> 1, status |-> "running", data |-> None,
                 chain |-> Chain(n, ends)]
    /\ refs = <<>>
    /\ found = NoFind
    /\ fs = EmptyFs
    /\ IdleAdd /\ IdleObj /\ IdleIo /\ IdleStep /\ IdleTree
    /\ IdleAp /\ IdleCommit

NextRef == ResolveMissing \/ ResolveFollow \/ ResolveData \/ ResolveOverflow

SpecRef == InitRef /\ [][NextRef]_vars

\* C8: on a chain of symbolic refs, however long, ref_resolve ends by
\* returning the digest in the last file, or None where that file is
\* missing.
C8_ResolvesAnyDepth ==
    rr.status \notin {"none", "running"}
        => /\ rr.status = "returned"
           /\ rr.data = (IF rr.chain.ends THEN Some(shaBC) ELSE None)

-----------------------------------------------------------------------------
(* SpecTree: tree_from_index, one pass of its second loop at a time.       *)
(* tb.contents is the dict `contents` as the sequence of its keys, in the  *)
(* order they were inserted, each with its list; tb.sorted_paths is what   *)
(* is left of sorted_paths; tb.writes is the calls of object_write made.   *)

\* The most entries of the index a tree is built from.
MaxStaged == 3

\* os.path.dirname(p) and os.path.basename(p) (posixpath): i is
\* p.rfind("/") + 1.
rfind_sep(p) == Max({0} \cup {i \in 1..Len(p) : p[i] = Slash})

RECURSIVE rstrip_sep(_)
rstrip_sep(s) ==
    IF s # <<>> /\ s[Len(s)] = Slash THEN rstrip_sep(SubSeq(s, 1, Len(s) - 1)) ELSE s

dirname_head(head) ==
    IF head # <<>> /\ (\E i \in 1..Len(head) : head[i] # Slash) THEN rstrip_sep(head)
    ELSE head

dirname(p) == dirname_head(SubSeq(p, 1, rfind_sep(p)))
basename(p) == SubSeq(p, rfind_sep(p) + 1, Len(p))

\* f"{n:0{width}o}"
RECURSIVE OctDigits(_)
OctDigits(n) ==
    IF n < 8 THEN <<Zero + n>> ELSE OctDigits(n \div 8) \o <<Zero + (n % 8)>>

RECURSIVE ZeroPad(_, _)
ZeroPad(s, width) == IF Len(s) >= width THEN s ELSE ZeroPad(<<Zero>> \o s, width)

oct(n, width) == ZeroPad(OctDigits(n), width)

\* An element of a list of contents: an index entry, or the tuple
\* (base, sha) of a tree that was written.
ContentEntry(entry) == [is_entry |-> TRUE, entry |-> entry, tuple |-> <<>>]
ContentTuple(base, sha) == [is_entry |-> FALSE, entry |-> <<>>, tuple |-> <<base, sha>>]

\* contents[key] and `key in contents`
KeyAt(contents, key) == CHOOSE i \in 1..Len(contents) : contents[i].key = key
HasKey(contents, key) == \E i \in 1..Len(contents) : contents[i].key = key
Keys(contents) == [i \in 1..Len(contents) |-> contents[i].key]

\* contents[key] = list()
SetEmpty(contents, key) ==
    IF HasKey(contents, key) THEN [contents EXCEPT ![KeyAt(contents, key)].list = <<>>]
    ELSE Append(contents, [key |-> key, list |-> <<>>])

\* contents[key].append(x)
AppendTo(contents, key, x) ==
    [contents EXCEPT ![KeyAt(contents, key)].list = Append(@, x)]

\* tree_from_index, lines 217-220: the while loop from key
RECURSIVE tree_add_keys(_, _)
tree_add_keys(contents, key) ==
    IF key = <<>> THEN contents
    ELSE tree_add_keys(IF HasKey(contents, key) THEN contents ELSE SetEmpty(contents, key),
                       dirname(key))

\* tree_from_index, lines 214-221: the loop over index.entries
RECURSIVE tree_contents(_, _)
tree_contents(contents, entries) ==
    IF entries = <<>> THEN contents
    ELSE tree_contents(AppendTo(tree_add_keys(contents, dirname(entries[1].name)),
                                dirname(entries[1].name), ContentEntry(entries[1])),
                       Tail(entries))

\* sorted(keys, key=len): shortest first, keys of one length in the order
\* they come in.
RECURSIVE InsertAscending(_, _)
InsertAscending(sorted, key) ==
    IF sorted = <<>> THEN <<key>>
    ELSE IF Len(sorted[Len(sorted)]) <= Len(key) THEN Append(sorted, key)
    ELSE Append(InsertAscending(SubSeq(sorted, 1, Len(sorted) - 1), key), sorted[Len(sorted)])

RECURSIVE sorted_by_len_ascending(_)
sorted_by_len_ascending(keys) ==
    IF keys = <<>> THEN <<>>
    ELSE InsertAscending(sorted_by_len_ascending(SubSeq(keys, 1, Len(keys) - 1)),
                         keys[Len(keys)])

\* sorted(keys, key=len, reverse=True): longest first, keys of one length
\* in the order they come in.
RECURSIVE InsertByLen(_, _)
InsertByLen(sorted, key) ==
    IF sorted = <<>> THEN <<key>>
    ELSE IF Len(sorted[Len(sorted)]) >= Len(key) THEN Append(sorted, key)
    ELSE Append(InsertByLen(SubSeq(sorted, 1, Len(sorted) - 1), key), sorted[Len(sorted)])

RECURSIVE sorted_by_len(_)
sorted_by_len(keys) ==
    IF keys = <<>> THEN <<>>
    ELSE InsertByLen(sorted_by_len(SubSeq(keys, 1, Len(keys) - 1)), keys[Len(keys)])

\* tree_from_index, lines 230-235: the leaf of one element of contents[path]
tree_leaf(x) ==
    IF x.is_entry
    THEN GitTreeLeaf(oct(x.entry.mode_type, 2) \o oct(x.entry.mode_perms, 4),
                     basename(x.entry.name), x.entry.sha)
    ELSE GitTreeLeaf(modeDir, x.tuple[1], x.tuple[2])

tree_items(list) == [i \in 1..Len(list) |-> tree_leaf(list[i])]

\* tree_from_index, lines 213-224, up to the second loop
TreeCallDone(idx, contents) ==
    /\ tb' = [status |-> "loop", index |-> idx, contents |-> contents,
              sorted_paths |-> sorted_by_len(Keys(contents)), sha |-> None,
              writes |-> <<>>]
    /\ UNCHANGED <<fs, othersTree>>

TreeCall(idx) ==
    /\ tb.status = "none"
    /\ TreeCallDone(idx, tree_contents(SetEmpty(<<>>, <<>>), idx.entries))

\* tree_from_index, lines 225-239: one pass of the loop over sorted_paths
TreeStepDone(path, w) ==
    /\ fs' = w.fs
    /\ tb' = [tb EXCEPT !.contents = AppendTo(@, dirname(path),
                                              ContentTuple(basename(path), w.sha)),
                        !.sorted_paths = Tail(@),
                        !.sha = Some(w.sha),
                        !.writes = Append(@, [path |-> path, sha |-> w.sha])]
    /\ UNCHANGED othersTree

TreeWrite(path) ==
    TreeStepDone(path,
                 object_write(fs, GitTree(tree_items(tb.contents[KeyAt(tb.contents, path)].list)),
                              TRUE))

TreeStep ==
    /\ tb.status = "loop"
    /\ tb.sorted_paths # <<>>
    /\ TreeWrite(tb.sorted_paths[1])

\* tree_from_index, line 240
TreeReturn ==
    /\ tb.status = "loop"
    /\ tb.sorted_paths = <<>>
    /\ tb' = [tb EXCEPT !.status = "returned"]
    /\ UNCHANGED <<fs, othersTree>>

\* Staged files: a regular file at the top, one in a directory, a symbolic
\* link two directories down, and a file under two directories that hold
\* nothing else.
pathDEC == <<100, Slash, 101, Slash, 99>>
pathXXYZ == <<120, 120, Slash, 121, Slash, 122>>

StagedEntries ==
    {entryA, entryDB,
     GitIndexEntry(<<1, 0>>, <<1, 0>>, 1, 1, 10, 0, 0, 0, 1, shaOne, FALSE, 0, pathDEC),
     GitIndexEntry(<<1, 0>>, <<1, 0>>, 1, 1, 8, 493, 0, 0, 1, shaTwo, FALSE, 0, pathXXYZ)}

StagedIndexes ==
    {GitIndex(2, s) : s \in UNION {[1..n -> StagedEntries] : n \in 0..MaxStaged}}

InitTree ==
    /\ tb = NoTree
    /\ fs = EmptyFs
    /\ IdleAdd /\ IdleObj /\ IdleIo /\ IdleStep /\ IdleRef
    /\ IdleAp /\ IdleCommit

NextTree ==
    \/ \E idx \in StagedIndexes : TreeCall(idx)
    \/ TreeStep
    \/ TreeReturn

SpecTree == InitTree /\ [][NextTree]_vars

\* The directories of a staged name: the root, and the part before each of
\* its separators.
Ancestors(name) == {<<>>} \cup {SubSeq(name, 1, i - 1) : i \in {j \in 1..Len(name) : name[j] = Slash}}
Directories(entries) == UNION {Ancestors(entries[i].name) : i \in 1..Len(entries)} \cup {<<>>}

\* The trees in the object store, by digest.
StoredTrees ==
    {p.dir \o p.name : p \in {q \in DOMAIN fs.files :
                                  ~q.tmp /\ q.dir # GitDir
                                  /\ object_read(fs, q.dir \o q.name).obj.fmt = fmtTree}}

SubtreesPresent(sha) ==
    \A i \in 1..Len(object_read(fs, sha).obj.items) :
        object_read(fs, sha).obj.items[i].mode = modeDir
            => exists(fs, ObjPath(object_read(fs, sha).obj.items[i].sha))

\* The names the tree stored under sha gives to subtrees.
SubtreeNames(sha) ==
    {object_read(fs, sha).obj.items[i].path :
        i \in {j \in 1..Len(object_read(fs, sha).obj.items) :
                  object_read(fs, sha).obj.items[j].mode = modeDir}}

\* C9: at every moment of tree_from_index each tree in the store has all
\* the subtrees it references in the store; when the call returns it has
\* called object_write once for each directory of the staged paths, the
\* root and directories without files of their own included, and for no
\* other path, and it returns the digest it wrote for the root, whose tree
\* names each directory directly under it.
C9_OneTreePerDirectory ==
    /\ tb.status # "none" => \A sha \in StoredTrees : SubtreesPresent(sha)
    /\ tb.status = "returned" =>
        /\ {tb.writes[i].path : i \in 1..Len(tb.writes)} = Directories(tb.index.entries)
        /\ Len(tb.writes) = Cardinality(Directories(tb.index.entries))
        /\ \A i \in 1..Len(tb.writes) : exists(fs, ObjPath(tb.writes[i].sha))
        /\ \E i \in 1..Len(tb.writes) :
               /\ tb.writes[i].path = <<>>
               /\ tb.sha = Some(tb.writes[i].sha)
               /\ SubtreeNames(tb.writes[i].sha)
                      = {d \in Directories(tb.index.entries) : d # <<>> /\ dirname(d) = <<>>}

\* A call has returned for the staged paths xx/y/z, d/e/c and a: five trees
\* were written, two of them for directories without files of their own.
C9_Witness ==
    /\ tb.status = "returned"
    /\ Len(tb.writes) = 5
    /\ \E i \in 1..Len(tb.writes) : tb.writes[i].path = <<120, 120>>
    /\ \E i \in 1..Len(tb.writes) : tb.writes[i].path = <<100>>
    /\ Cardinality(StoredTrees) = 5
    /\ ~tb.sha.none /\ SubtreeNames(tb.sha.data) = {<<120, 120>>, <<100>>}

-----------------------------------------------------------------------------
(* SpecKvlm: kvlm_parse and kvlm_serialize applied one after the other,    *)
(* from a field mapping and from the bytes of a payload                    *)

\* Bounds: the longest value or message of a field mapping, and the most
\* header lines of a payload.
MaxValueLen == 2
MaxHeaders == 3

KvBytes == {NL, SP, 120}
KvValues == UNION {[1..n -> KvBytes] : n \in 0..MaxValueLen}

\* Field mappings as commit_create builds them and kvlm_parse returns them:
\* keys without space or newline, the message under None as the last key,
\* a repeated field as a list of two or more values.
FieldMappings ==
    {<<KvMessage(m)>> : m \in KvValues}
        \cup {<<KvItem(keyTree, v), KvMessage(m)>> : v \in KvValues, m \in KvValues}
        \cup {<<KvItem(keyTree, <<49>>), KvList(keyParent, <<v, w>>), KvMessage(<<104, NL, NL, 105>>)>> :
                 v \in KvValues, w \in KvValues}
        \cup {<<KvList(keyParent, <<v, <<50>>, v>>), KvItem(keyTree, v), KvMessage(<<>>)>> :
                 v \in KvValues}

\* A header of a payload: the key, a space, the value with a space after
\* each of its newlines, a newline.
HeaderLine(h) == h[1] \o <<SP>> \o EscapeNewlines(h[2]) \o <<NL>>

RECURSIVE HeaderLines(_)
HeaderLines(hs) == IF hs = <<>> THEN <<>> ELSE HeaderLine(Head(hs)) \o HeaderLines(Tail(hs))

Headers == {<<keyTree, <<49>>>>, <<keyParent, <<50>>>>, <<keyParent, <<51, NL, 52>>>>,
            <<<<97>>, <<120>>>>}

\* Well-formed payloads: header lines, keys repeated at any place among
\* them, a blank line, the message.
Payloads ==
    {HeaderLines(hs) \o <<NL>> \o m :
        hs \in UNION {[1..n -> Headers] : n \in 0..MaxHeaders},
        m \in {<<>>, <<104, 105, NL>>}}

KvlmState(op, fields, raw, ok, out) ==
    [op |-> op, fields |-> fields, raw |-> raw, ok |-> ok, out |-> out]

KvlmSerializeDone(op, raw) ==
    /\ ap' = IF op = "serialized" THEN KvlmState(op, ap.fields, raw, TRUE, <<>>)
             ELSE KvlmState(op, ap.fields, ap.raw, TRUE, raw)
    /\ UNCHANGED othersAp

\* kvlm_serialize of the mapping at hand: the one drawn, or the one
\* kvlm_parse returned.
KvlmSerialize ==
    /\ ap.op \in {"fields", "parsed"}
    /\ ap.ok
    /\ KvlmSerializeDone(IF ap.op = "fields" THEN "serialized" ELSE "reserialized",
                         kvlm_serialize(ap.fields))

KvlmParseDone(op, r) ==
    /\ ap' = IF op = "parsed" THEN KvlmState(op, r.kvlm, ap.raw, r.ok, <<>>)
             ELSE KvlmState(op, ap.fields, ap.raw, r.ok, r.kvlm)
    /\ UNCHANGED othersAp

\* kvlm_parse of the bytes at hand: the payload drawn, or what
\* kvlm_serialize returned.
KvlmParse ==
    /\ ap.op \in {"raw", "serialized"}
    /\ KvlmParseDone(IF ap.op = "raw" THEN "parsed" ELSE "reparsed", kvlm_parse(ap.raw))

InitKvlm ==
    /\ ap \in {KvlmState("fields", f, <<>>, TRUE, <<>>) : f \in FieldMappings}
                \cup {KvlmState("raw", <<>>, r, TRUE, <<>>) : r \in Payloads}
    /\ fs = EmptyFs
    /\ IdleAdd /\ IdleObj /\ IdleIo /\ IdleStep /\ IdleRef /\ IdleTree /\ IdleCommit

NextKvlm ==
    \/ KvlmSerialize
    \/ KvlmParse

SpecKvlm == InitKvlm /\ [][NextKvlm]_vars

\* C11: kvlm_serialize of what kvlm_parse returns for a well-formed
\* payload is the payload, byte for byte.
C11_ParseSerialize ==
    ap.op = "reserialized" => ap.out = ap.raw

\* C12: kvlm_parse of what kvlm_serialize returns for a field mapping is
\* the mapping: the same keys in the same order, each with the same value
\* or list of values, and the same message.
C12_SerializeParse ==
    ap.op = "reparsed" => ap.ok /\ ap.out = ap.fields

\* The mapping tree, parent (two values, one of them with a newline and a
\* space after it), message of two paragraphs has come back.
C12_Witness ==
    /\ ap.op = "reparsed"
    /\ Len(ap.fields) = 3
    /\ ap.fields[2].list
    /\ ap.fields[2].vals = <<<<NL, SP>>, <<120, NL>>>>
    /\ ap.out = ap.fields

-----------------------------------------------------------------------------
(* SpecTreeCodec: tree_serialize and tree_parse applied one after the      *)
(* other to the items of a tree                                            *)

\* The most items of a tree.
MaxItems == 3

modeGitlink == <<49, 54, 48, 48, 48, 48>>

\* Leaves as tree_from_index and tree_parse make them, with modes of six
\* digits: the names a, "a." and a0 sort differently with and without a
\* "/" after a; one name holds a space.
CodecLeaves ==
    {GitTreeLeaf(modeFile, <<97>>, shaOne), GitTreeLeaf(modeDir, <<97>>, shaTwo),
     GitTreeLeaf(modeLink, <<97>>, shaTwo), GitTreeLeaf(modeFile, <<97, 46>>, shaOne),
     GitTreeLeaf(modeGitlink, <<97, 48>>, shaTwo), GitTreeLeaf(modeDir, <<97, SP, 98>>, shaOne)}

CodecTrees ==
    UNION {[1..n -> CodecLeaves] : n \in 0..MaxItems}
        \cup {deserialize(fmtTree, rawGitTree).obj.items}

TreeState(op, tree, items, enc, ok, out) ==
    [op |-> op, tree |-> tree, items |-> items, enc |-> enc, ok |-> ok, out |-> out]

\* tree_serialize(obj): obj.items is sorted in place (line 241), then
\* written out.  The first call gives enc, the call on the parsed tree out.
TreeSerialize ==
    /\ ap.op \in {"tree", "parsed"}
    /\ ap.ok
    /\ ap' = IF ap.op = "tree"
             THEN TreeState("serialized", ap.tree, SortLeaves(ap.items),
                            tree_serialize(ap.items), TRUE, <<>>)
             ELSE TreeState("reserialized", ap.tree, SortLeaves(ap.items), ap.enc, TRUE,
                            tree_serialize(ap.items))
    /\ UNCHANGED othersAp

TreeParseDone(r) ==
    /\ ap' = TreeState("parsed", ap.tree, r.items, ap.enc, r.ok, <<>>)
    /\ UNCHANGED othersAp

\* tree_parse of the bytes tree_serialize returned
TreeParse ==
    /\ ap.op = "serialized"
    /\ TreeParseDone(tree_parse(ap.enc))

InitTreeCodec ==
    /\ ap \in {TreeState("tree", t, t, <<>>, TRUE, <<>>) : t \in CodecTrees}
    /\ fs = EmptyFs
    /\ IdleAdd /\ IdleObj /\ IdleIo /\ IdleStep /\ IdleRef /\ IdleTree /\ IdleCommit

NextTreeCodec ==
    \/ TreeSerialize
    \/ TreeParse

SpecTreeCodec == InitTreeCodec /\ [][NextTreeCodec]_vars

\* C13: tree_parse of what tree_serialize returns for a tree has the
\* entries (mode, name, digest) of the tree, as a set; tree_serialize of
\* the parsed tree returns the same bytes again.
C13_TreeRoundTrip ==
    /\ ap.op = "parsed" => ap.ok /\ Range(ap.items) = Range(ap.tree)
    /\ ap.op = "reserialized" => ap.out = ap.enc

\* A tree of three entries given out of order, one of them a symbolic
\* link, has been serialized, parsed and serialized again.
C13_Witness ==
    /\ ap.op = "reserialized"
    /\ Len(ap.tree) = 3
    /\ Cardinality(Range(ap.tree)) = 3
    /\ ap.tree # ap.items
    /\ \E i \in 1..3 : ap.tree[i].mode = modeLink
    /\ ap.out = ap.enc

\* The sort key of the specification: name + "/" for a directory entry (mode 040000),
\* the bare name for every other entry.
DirectoryKey(leaf) == IF leaf.mode = modeDir THEN leaf.path \o <<Slash>> ELSE leaf.path

\* C18: the entries tree_serialize writes are in ascending order of the
\* key name + "/" for directories and the bare name for regular files,
\* symbolic links and gitlinks, whatever order they were given in.
C18_SortedByDirectoryKey ==
    ap.op = "serialized" =>
        /\ ap.enc = ConcatLeaves(ap.items)
        /\ \A i \in 1..Len(ap.items) : \A j \in i..Len(ap.items) :
               ~LexLess(DirectoryKey(ap.items[j]), DirectoryKey(ap.items[i]))

-----------------------------------------------------------------------------
(* SpecStore: object_read on a store whose files were put there by other   *)
(* hands: objects whose header is right, objects whose header gives        *)
(* another length than the payload has, and no object at all.  ap.stored   *)
(* tells what was put: digest, kind, length in the header, payload.        *)

\* Bounds: the most objects put in the store, and how far the length in a
\* header is from the length of the payload.
MaxStored == 1
MaxExcess == 2

StoredPayloads ==
    {[fmt |-> fmtBlob, payload |-> <<>>],
     [fmt |-> fmtTree, payload |-> <<>>],
     [fmt |-> fmtBlob, payload |-> <<97, NUL, SP>>],
     [fmt |-> fmtTree, payload |-> tree_serialize(<<GitTreeLeaf(modeFile, <<97>>, shaOne)>>)],
     [fmt |-> fmtCommit,
      payload |-> kvlm_serialize(<<KvItem(keyTree, <<49>>), KvMessage(<<104, 105, NL>>)>>)],
     [fmt |-> fmtTag,
      payload |-> kvlm_serialize(<<KvItem(keyObject, <<49>>), KvMessage(<<116, NL>>)>>)]}

\* The lengths a header may give for a payload of n bytes.
HeaderLengths(n) == {k \in (n - MaxExcess)..(n + MaxExcess) : k >= 0} \cup {0, 10 * n + 1}

\* The file of an object: the compressed bytes fmt SP length NUL payload.
StoredFile(fmt, length, payload) == compress(fmt \o <<SP>> \o str(length) \o <<NUL>> \o payload)

PutFile(f, path, data) ==
    [f EXCEPT !.files = @ @@ (path :> File(data, f.next)), !.next = @ + 1]

PutObjectAt(sha, fmt, length, payload) ==
    /\ ~exists(fs, ObjPath(sha))
    /\ fs' = PutFile(object_write_dir(fs, ObjPath(sha)), ObjPath(sha),
                     StoredFile(fmt, length, payload))
    /\ ap' = [ap EXCEPT !.stored = Append(@, [sha |-> sha, fmt |-> fmt, length |-> length,
                                              payload |-> payload])]
    /\ last' = [NoCall EXCEPT !.op = "put"]
    /\ UNCHANGED othersStore

\* A file appears under objects/, at the path of the digest of the object
\* it was written for.
PutObject(p, length) ==
    /\ Len(ap.stored) < MaxStored
    /\ PutObjectAt(sha1(FrameOf(p.fmt, p.payload)), p.fmt, length, p.payload)

\* A digest in the fan-out directory of sha that is not sha.
Sibling(sha) == [sha EXCEPT ![3] = (@ + 1) % 16]

StoredShas == {ap.stored[i].sha : i \in 1..Len(ap.stored)}

InitStore ==
    /\ fs = EmptyFs
    /\ ap = [op |-> "store", stored |-> <<>>]
    /\ IdleAdd /\ IdleObj /\ IdleIo /\ IdleStep /\ IdleRef /\ IdleTree /\ IdleCommit

NextStore ==
    \/ \E p \in StoredPayloads : \E length \in HeaderLengths(Len(p.payload)) : PutObject(p, length)
    \/ \E sha \in StoredShas \cup {Sibling(s) : s \in StoredShas} \cup {AbsentSha} : ObjRead(sha)

SpecStore == InitStore /\ [][NextStore]_vars

\* C14: object_read of a stored object whose header gives a length other
\* than the number of bytes of its payload raises the exception of line
\* 74 ("Malformed object") and returns no object, whatever the kind and
\* whatever the two lengths.
C14_MismatchRaises ==
    \A i \in 1..Len(ap.stored) :
        (last.op = "read" /\ last.sha = ap.stored[i].sha
         /\ ap.stored[i].length # Len(ap.stored[i].payload))
            => /\ last.status = "raise"
               /\ last.error = "Malformed object"
               /\ last.result = NoObject

\* A commit whose header is one short of its payload has been read.
C14_Witness ==
    /\ last.op = "read"
    /\ last.status = "raise"
    /\ \E i \in 1..Len(ap.stored) :
           /\ last.sha = ap.stored[i].sha
           /\ ap.stored[i].fmt = fmtCommit
           /\ ap.stored[i].length = Len(ap.stored[i].payload) - 1

\* C15: object_read of a digest that has no file in the store fails: it
\* raises, with or without the fan-out directory of the digest, and does
\* not return.
C15_AbsentRaises ==
    (last.op = "read" /\ ~exists(fs, ObjPath(last.sha))) => last.status = "raise"

-----------------------------------------------------------------------------
(* SpecPath: repo_path on sequences of path components, and the file       *)
(* ref_resolve opens for the target of a symbolic ref.  Paths are strings; *)
(* the repository is at /w, so that its gitdir is /w/.git.                 *)

\* The most path components of a call.
MaxParts == 2

Dot == 46
strDotDot == <<Dot, Dot>>
worktree == <<Slash, 119>>
strDotGit == <<Dot, 103, 105, 116>>

\* s.split("/")
RECURSIVE split(_)
split(s) ==
    IF find(s, Slash, 0) < 0 THEN <<s>>
    ELSE <<Slice(s, 0, find(s, Slash, 0))>> \o split(SliceFrom(s, find(s, Slash, 0) + 1))

\* "/".join(comps)
RECURSIVE joined(_)
joined(comps) ==
    IF comps = <<>> THEN <<>>
    ELSE IF Len(comps) = 1 THEN comps[1]
    ELSE comps[1] \o <<Slash>> \o joined(Tail(comps))

\* posixpath.join(a, *p)
RECURSIVE join(_, _)
join(a, p) ==
    IF p = <<>> THEN a
    ELSE IF startswith(Head(p), <<Slash>>) THEN join(Head(p), Tail(p))
    ELSE IF a = <<>> \/ a[Len(a)] = Slash THEN join(a \o Head(p), Tail(p))
    ELSE join(a \o <<Slash>> \o Head(p), Tail(p))

\* posixpath.normpath: the loop over the components
RECURSIVE normpath_comps(_, _, _)
normpath_comps(comps, new_comps, initial_slashes) ==
    IF comps = <<>> THEN new_comps
    ELSE IF Head(comps) = <<>> \/ Head(comps) = <<Dot>>
         THEN normpath_comps(Tail(comps), new_comps, initial_slashes)
    ELSE IF \/ Head(comps) # strDotDot
            \/ (initial_slashes = 0 /\ new_comps = <<>>)
            \/ (new_comps # <<>> /\ new_comps[Len(new_comps)] = strDotDot)
         THEN normpath_comps(Tail(comps), Append(new_comps, Head(comps)), initial_slashes)
    ELSE IF new_comps # <<>>
         THEN normpath_comps(Tail(comps), SubSeq(new_comps, 1, Len(new_comps) - 1),
                             initial_slashes)
    ELSE normpath_comps(Tail(comps), new_comps, initial_slashes)

initial_slashes(path) ==
    IF ~startswith(path, <<Slash>>) THEN 0
    ELSE IF startswith(path, <<Slash, Slash>>) /\ ~startswith(path, <<Slash, Slash, Slash>>) THEN 2
    ELSE 1

normpath_joined(path, n) ==
    IF [i \in 1..n |-> Slash] \o path = <<>> THEN <<Dot>> ELSE [i \in 1..n |-> Slash] \o path

normpath(path) ==
    IF path = <<>> THEN <<Dot>>
    ELSE normpath_joined(joined(normpath_comps(split(path), <<>>, initial_slashes(path))),
                         initial_slashes(path))

\* os.path.abspath, the working directory being the worktree
abspath(path) ==
    IF startswith(path, <<Slash>>) THEN normpath(path) ELSE normpath(join(worktree, <<path>>))

\* GitRepository.__init__, line 14
gitdir == join(worktree, <<strDotGit>>)

\* repo_path(repository, *path): [raised, destination]
repo_path_check(destination, gitdir_abs) ==
    [raised |-> ~startswith(destination, gitdir_abs), destination |-> destination]

repo_path(path) == repo_path_check(abspath(join(gitdir, path)), abspath(gitdir))

\* Path components: names, "..", ".", the empty string, absolute paths,
\* and components with separators of their own, as the target of a
\* symbolic ref is.
PathParts ==
    {<<114>>, <<Dot>>, strDotDot, <<>>, strDotGit, strHeads \o strMaster, <<Slash, 101>>,
     worktree \o <<Slash>> \o strDotGit \o <<Slash, 120>>,
     strDotDot \o <<Slash>> \o strDotGit \o <<105>>,
     strDotDot \o <<Slash, 120>>,
     <<114, Slash>> \o strDotDot \o <<Slash>> \o strDotDot \o <<Slash>> \o strDotGit}

\* Files on disk: HEAD and a branch in the gitdir; .giti and x beside it.
DiskFiles ==
    {join(gitdir, <<strHEAD>>), join(gitdir, <<strHeads \o strMaster>>),
     join(worktree, <<strDotGit \o <<105>>>>), join(worktree, <<<<120>>>>)}

PathState(op, path, r, opened) ==
    [op |-> op, path |-> path, raised |-> r.raised, destination |-> r.destination,
     opened |-> opened]

\* repo_path(repository, *path)
RepoPath(path) ==
    /\ ap' = PathState("repo_path", path, repo_path(path), None)
    /\ UNCHANGED othersAp

\* ref_resolve(repository, ref), lines 130-134: repo_file(repository, ref)
\* is repo_path(repository, ref), the gitdir being a directory; the path
\* is opened and read if it is a file.
RefOpenDone(ref, r) ==
    /\ ap' = PathState("ref_resolve", <<ref>>, r,
                       IF ~r.raised /\ r.destination \in DiskFiles THEN Some(r.destination)
                       ELSE None)
    /\ UNCHANGED othersAp

RefOpen(ref) == RefOpenDone(ref, repo_path(<<ref>>))

InitPath ==
    /\ ap = NoAp
    /\ fs = EmptyFs
    /\ IdleAdd /\ IdleObj /\ IdleIo /\ IdleStep /\ IdleRef /\ IdleTree /\ IdleCommit

NextPath ==
    \/ \E path \in UNION {[1..n -> PathParts] : n \in 0..MaxParts} : RepoPath(path)
    \/ \E ref \in PathParts \cup {strHEAD} : RefOpen(ref)

SpecPath == InitPath /\ [][NextPath]_vars

\* A path is the gitdir or lies in it.
InGitDir(path) == path = gitdir \/ startswith(path, gitdir \o <<Slash>>)

\* C16: repo_path returns a path only if it is the gitdir or lies in it,
\* and raises for every other destination; the file ref_resolve opens for
\* the target of a symbolic ref lies in the gitdir.
C16_StaysInGitDir ==
    ap.op \in {"repo_path", "ref_resolve"} =>
        /\ ap.raised <=> ~InGitDir(ap.destination)
        /\ ~ap.opened.none => InGitDir(ap.opened.data)

-----------------------------------------------------------------------------
(* SpecFollow: object_find with a kind, on a store of a blob, a tree, a    *)
(* commit of the tree, and tags of the commit, of a tag and of the blob    *)

FindResult(status, sha) == [status |-> status, sha |-> sha]

\* obj.kvlm[key].decode("ascii"); i is the place of the key.  None where
\* the source raises: KeyError without the key, AttributeError for a list.
kvlm_field(dct, i) ==
    IF i = 0 \/ dct[i].list THEN None ELSE Some(dct[i].vals[1])

\* object_find, lines 123-134: the loop.  sha is a string of hex digits.
\* status "returned None" is `return None`; "raise" is an exception of object_read
\* or of the loop itself (obj is None, no such key).
RECURSIVE object_find_loop(_, _, _, _)
object_find_next(f, fmt, follow, r) ==
    IF r.none THEN FindResult("raise", None) ELSE object_find_loop(f, r.data, fmt, follow)

object_find_obj(f, sha, fmt, follow, r) ==
    IF r.status # "ok" THEN FindResult("raise", None)
    ELSE IF r.obj.fmt = fmt THEN FindResult("ok", Some(sha))
    ELSE IF ~follow THEN FindResult("returned None", None)
    ELSE IF r.obj.fmt = fmtTag
         THEN object_find_next(f, fmt, follow,
                               kvlm_field(r.obj.kvlm, KvIndex(r.obj.kvlm, keyObject)))
    ELSE IF r.obj.fmt = fmtCommit /\ fmt = fmtTree
         THEN object_find_next(f, fmt, follow,
                               kvlm_field(r.obj.kvlm, KvIndex(r.obj.kvlm, keyTree)))
    ELSE FindResult("returned None", None)

object_find_loop(f, sha, fmt, follow) ==
    object_find_obj(f, sha, fmt, follow, object_read(f, HexVals(sha)))

\* object_find(repository, name, fmt, follow); fmt is <<>> for None.
object_find_sha(f, fmt, follow, r) ==
    IF r.status # "ok" \/ fmt = <<>> THEN r
    ELSE IF r.sha.none THEN FindResult("raise", None)
    ELSE object_find_loop(f, r.sha.data, fmt, follow)

object_find_fmt(f, rfs, name, fmt, follow) ==
    object_find_sha(f, fmt, follow, object_find(f, rfs, name))

\* The most objects written.
MaxMade == 4

strM == <<109, NL>>

\* The objects a run may write next: a blob, a tree of a blob written, a
\* commit of a tree written, a tag of any object written.  ap.made is the
\* objects written, each as [fmt, sha].
FollowObjects ==
    {GitBlob(<<97>>)}
        \cup {GitTree(<<GitTreeLeaf(modeFile, <<97>>, HexVals(m.sha))>>) :
                 m \in {x \in Range(ap.made) : x.fmt = fmtBlob}}
        \cup {GitCommit(<<KvItem(keyTree, m.sha), KvMessage(strM)>>) :
                 m \in {x \in Range(ap.made) : x.fmt = fmtTree}}
        \cup {GitTag(<<KvItem(keyObject, m.sha), KvMessage(strM)>>) : m \in Range(ap.made)}

\* object_write of an object not yet in the store; what the last call
\* found says nothing of the new store.
FollowWriteDone(obj, w) ==
    /\ ~exists(fs, ObjPath(w.sha))
    /\ fs' = w.fs
    /\ ap' = [ap EXCEPT !.made = Append(@, [fmt |-> obj.fmt, sha |-> HexStr(w.sha)])]
    /\ found' = NoFind
    /\ UNCHANGED othersFollow

FollowWrite(obj) ==
    /\ Len(ap.made) < MaxMade
    /\ FollowWriteDone(obj, object_write(fs, obj, TRUE))

FollowFindDone(name, fmt, follow, r) ==
    /\ found' = [name |-> name, status |-> r.status, sha |-> r.sha, candidates |-> <<>>,
                 fmt |-> fmt, follow |-> follow]
    /\ UNCHANGED <<fs, ap, othersFollow>>

FollowFind(name, fmt, follow) ==
    FollowFindDone(name, fmt, follow, object_find_fmt(fs, refs, name, fmt, follow))

InitFollow ==
    /\ fs = EmptyFs
    /\ refs = (strHEAD :> (strRefColon \o strHeads \o strMaster \o <<NL>>))
    /\ found = NoFind
    /\ rr = NoResolve
    /\ ap = [op |-> "follow", made |-> <<>>]
    /\ IdleAdd /\ IdleObj /\ IdleIo /\ IdleStep /\ IdleTree /\ IdleCommit

NextFollow ==
    \/ \E obj \in FollowObjects : FollowWrite(obj)
    \/ \E m \in Range(ap.made), fmt \in Fmts, follow \in BOOLEAN : FollowFind(m.sha, fmt, follow)

SpecFollow == InitFollow /\ [][NextFollow]_vars

\* The kind of the stored object sha, <<>> if it cannot be read.
KindOf(sha) ==
    IF object_read(fs, HexVals(sha)).status = "ok" THEN object_read(fs, HexVals(sha)).obj.fmt
    ELSE <<>>

\* The field of the stored object sha that is followed from it when fmt is
\* sought: object for a tag, tree for a commit when a tree is sought.
FollowedField(sha, fmt) ==
    IF KindOf(sha) = fmtTag
    THEN kvlm_field(object_read(fs, HexVals(sha)).obj.kvlm,
                    KvIndex(object_read(fs, HexVals(sha)).obj.kvlm, keyObject))
    ELSE IF KindOf(sha) = fmtCommit /\ fmt = fmtTree
    THEN kvlm_field(object_read(fs, HexVals(sha)).obj.kvlm,
                    KvIndex(object_read(fs, HexVals(sha)).obj.kvlm, keyTree))
    ELSE None

\* The first object of kind fmt reached from sha, None if there is none.
RECURSIVE FirstOfKind(_, _)
FirstOfKind(sha, fmt) ==
    IF KindOf(sha) = fmt THEN Some(sha)
    ELSE IF FollowedField(sha, fmt).none THEN None
    ELSE FirstOfKind(FollowedField(sha, fmt).data, fmt)

\* C17: object_find of the digest of a stored object with a kind: with
\* follow it returns the first object of the kind reached through object
\* fields of tags, and tree fields of commits when a tree is sought, and
\* fails when none is reached; without follow it returns the object if it
\* is of the kind and fails if not.  It never returns without a digest.
C17_FollowOrFail ==
    found.name # <<>> =>
        IF found.follow /\ ~FirstOfKind(found.name, found.fmt).none
        THEN found.status = "ok" /\ found.sha = FirstOfKind(found.name, found.fmt)
        ELSE IF ~found.follow /\ KindOf(found.name) = found.fmt
        THEN found.status = "ok" /\ found.sha = Some(found.name)
        ELSE found.status \in {"raise", "NotFound", "WrongKind"}

-----------------------------------------------------------------------------
(* libwyag.py: commit_create.  SpecTz: commit_create under every local UTC *)
(* offset of whole minutes from -12:00 to +14:00                           *)

Plus == 43
Minus == 45
keyAuthor == <<97, 117, 116, 104, 111, 114>>
keyCommitter == <<99, 111, 109, 109, 105, 116, 116, 101, 114>>

\* message.strip()
IsSpace(c) == c \in {SP, NL, 9, 11, 12, 13}

RECURSIVE strip(_)
strip(s) ==
    IF s = <<>> THEN s
    ELSE IF IsSpace(s[1]) THEN strip(Tail(s))
    ELSE IF IsSpace(s[Len(s)]) THEN strip(SubSeq(s, 1, Len(s) - 1))
    ELSE s

\* Python's // for a positive divisor: the floor of the quotient.
FloorDiv(a, b) == IF a >= 0 THEN a \div b ELSE 0 - ((b - 1 - a) \div b)

\* Python's % for a positive divisor: never negative.
PyMod(a, b) == a - b * FloorDiv(a, b)

\* "{:02}".format(n): two digits for 0..99, and for a negative number the
\* minus sign and its digits, padded with zeros to a width of two.
format02(n) == IF n < 0 THEN <<Minus>> \o ZeroPad(str(0 - n), 1) ELSE ZeroPad(str(n), 2)

\* Lines 211-215: tz for an offset in seconds
tz_format(offset, hours, minutes) ==
    (IF offset > 0 THEN <<Plus>> ELSE <<Minus>>) \o format02(hours) \o format02(minutes)

tz(offset) == tz_format(offset, FloorDiv(offset, 3600), FloorDiv(PyMod(offset, 3600), 60))

\* Lines 206-219: the kvlm of the commit.  parent is None or a string.
commit_kvlm(tree, parent, author, message) ==
    <<KvItem(keyTree, tree)>>
        \o (IF Truthy(parent) THEN <<KvItem(keyParent, parent.data)>> ELSE <<>>)
        \o <<KvItem(keyAuthor, author), KvItem(keyCommitter, author), KvMessage(message)>>

\* commit_create(repository, tree, parent, author, timestamp, message):
\* [sha, fs].  timestamp is the seconds strftime("%s") prints, offset the
\* seconds of timestamp.astimezone().utcoffset().
commit_create(f, tree, parent, author, timestamp, offset, message) ==
    object_write(f, GitCommit(commit_kvlm(tree, parent,
                                          author \o <<SP>> \o str(timestamp) \o <<SP>> \o tz(offset),
                                          strip(message) \o <<NL>>)),
                 TRUE)

\* The author of gitconfig_user_get: "A <a@b>".
userAB == <<65, SP, 60, 97, 64, 98, 62>>

\* Local offsets, in minutes: -12:00 to +14:00.
OffsetMinutes == (0 - 12 * 60)..(14 * 60)

TzDone(offset, w) ==
    /\ fs' = w.fs
    /\ ap' = [op |-> "commit_create", offset |-> offset, sha |-> w.sha,
              kvlm |-> object_read(w.fs, w.sha).obj.kvlm]
    /\ UNCHANGED othersTz

\* commit_create under the offset drawn; ap.kvlm is the commit as
\* object_read gives it back.
TzCommitCreate ==
    /\ ap.op = "offset"
    /\ TzDone(ap.offset, commit_create(fs, HexStr(shaOne), None, userAB, 1, ap.offset, <<109>>))

InitTz ==
    /\ ap \in {[op |-> "offset", offset |-> 60 * m] : m \in OffsetMinutes}
    /\ fs = EmptyFs
    /\ IdleAdd /\ IdleObj /\ IdleIo /\ IdleStep /\ IdleRef /\ IdleTree /\ IdleCommit

NextTz == TzCommitCreate

SpecTz == InitTz /\ [][NextTz]_vars

Abs(n) == IF n < 0 THEN 0 - n ELSE n

\* The zone as the specification writes it: the sign, then two digits of hours and two of
\* minutes of the absolute offset.
SignedHHMM(offset) ==
    (IF offset >= 0 THEN <<Plus>> ELSE <<Minus>>)
        \o ZeroPad(str(Abs(offset) \div 3600), 2)
        \o ZeroPad(str((Abs(offset) % 3600) \div 60), 2)

\* s.endswith(p)
endswith(s, p) == Len(p) <= Len(s) /\ SubSeq(s, Len(s) - Len(p) + 1, Len(s)) = p

FieldValue(dct, key) == dct[KvIndex(dct, key)].vals[1]

\* C19: the author and committer values commit_create writes end in a
\* space, a sign and the four digits HHMM of the absolute offset; the
\* sign is + for offsets of zero and more and - for negative ones.
C19_SignedHHMM ==
    ap.op = "commit_create" =>
        /\ endswith(FieldValue(ap.kvlm, keyAuthor), <<SP>> \o SignedHHMM(ap.offset))
        /\ endswith(FieldValue(ap.kvlm, keyCommitter), <<SP>> \o SignedHHMM(ap.offset))

-----------------------------------------------------------------------------
(* libwyag.py: cmd_commit.  SpecCommit: commits on a branch and on a       *)
(* detached HEAD, the index changing in between.  cm.made is the commits   *)
(* made, oldest first, each with what HEAD resolved to before it.          *)

\* The most commits of a run.
MaxCommits == 3

\* tree_from_index(repository, index) run to its end: [sha, fs]
RECURSIVE tree_from_index_loop(_, _, _, _)
tree_from_index_step(contents, sorted_paths, w) ==
    tree_from_index_loop(w.fs,
                         AppendTo(contents, dirname(sorted_paths[1]),
                                  ContentTuple(basename(sorted_paths[1]), w.sha)),
                         Tail(sorted_paths), Some(w.sha))

tree_from_index_loop(f, contents, sorted_paths, sha) ==
    IF sorted_paths = <<>> THEN [sha |-> sha, fs |-> f]
    ELSE tree_from_index_step(contents, sorted_paths,
             object_write(f, GitTree(tree_items(contents[KeyAt(contents, sorted_paths[1])].list)),
                          TRUE))

tree_from_index_sorted(f, contents) ==
    tree_from_index_loop(f, contents, sorted_by_len(Keys(contents)), None)

tree_from_index(f, idx) ==
    tree_from_index_sorted(f, tree_contents(SetEmpty(<<>>, <<>>), idx.entries))

\* branch_get_active(repository): the name of the branch, None for False
branch_get_active(rfs) ==
    IF startswith(rfs[strHEAD], strRefColon \o strHeads)
    THEN Some(Slice(rfs[strHEAD], 16, -1))
    ELSE None

\* open(path, "w") and fd.write(data) on a ref file
ref_write(rfs, path, data) ==
    [q \in DOMAIN rfs \cup {path} |-> IF q = path THEN data ELSE rfs[q]]

\* cmd_commit, lines 195-201: the branch of HEAD gets the commit, a HEAD
\* that names no branch gets an empty line.
cmd_commit_refs(rfs, commit, active_branch) ==
    IF Truthy(active_branch)
    THEN ref_write(rfs, strHeads \o active_branch.data, commit \o <<NL>>)
    ELSE ref_write(rfs, strHEAD, <<NL>>)

cmd_commit_done(rfs, parent, c) ==
    [ok |-> TRUE, fs |-> c.fs, sha |-> HexStr(c.sha), before |-> parent,
     refs |-> cmd_commit_refs(rfs, HexStr(c.sha), branch_get_active(rfs))]

CommitFail(f, rfs) == [ok |-> FALSE, fs |-> f, sha |-> <<>>, before |-> None, refs |-> rfs]

cmd_commit_parent(rfs, timestamp, offset, message, t, parent) ==
    IF parent.status # "ok" THEN CommitFail(t.fs, rfs)
    ELSE cmd_commit_done(rfs, parent.sha,
                         commit_create(t.fs, HexStr(t.sha.data), parent.sha, userAB,
                                       timestamp, offset, message))

cmd_commit_tree(rfs, timestamp, offset, message, t) ==
    cmd_commit_parent(rfs, timestamp, offset, message, t, object_find(t.fs, rfs, strHEAD))

cmd_commit_index(f, rfs, timestamp, offset, message, idx) ==
    IF ~idx.ok THEN CommitFail(f, rfs)
    ELSE cmd_commit_tree(rfs, timestamp, offset, message, tree_from_index(f, idx.index))

\* cmd_commit(args) run to its end: [ok, fs, refs, sha, before].  timestamp
\* and offset are what datetime.now() gives; the user is configured.
cmd_commit(f, rfs, timestamp, offset, message) ==
    cmd_commit_index(f, rfs, timestamp, offset, message, index_read(f))

CommitDone(r) ==
    /\ r.ok
    /\ fs' = r.fs
    /\ refs' = r.refs
    /\ cm' = [op |-> "commit", made |-> Append(cm.made, [sha |-> r.sha, before |-> r.before])]
    /\ UNCHANGED othersCommit

Commit(timestamp) ==
    /\ Len(cm.made) < MaxCommits
    /\ CommitDone(cmd_commit(fs, refs, timestamp, 3600, <<109>>))

\* The index is written anew, as add and rm do, once between two commits.
Stage(idx) ==
    /\ cm.op # "stage"
    /\ Len(cm.made) < MaxCommits
    /\ index_read(fs).index # idx
    /\ fs' = index_write(fs, idx)
    /\ cm' = [cm EXCEPT !.op = "stage"]
    /\ UNCHANGED <<refs, othersCommit>>

\* HEAD is detached at the commit it resolves to: the file gets the
\* digest in place of the name of the branch.
Detach ==
    /\ startswith(refs[strHEAD], strRefColon)
    /\ Truthy(ref_resolve(refs, strHEAD))
    /\ refs' = ref_write(refs, strHEAD, ref_resolve(refs, strHEAD).data \o <<NL>>)
    /\ cm' = [cm EXCEPT !.op = "detach"]
    /\ UNCHANGED <<fs, othersCommit>>

\* repo_create, lines 80-81: HEAD names the branch master, which has no
\* ref yet.
InitCommit ==
    /\ fs = EmptyFs
    /\ refs = (strHEAD :> (strRefColon \o strHeads \o strMaster \o <<NL>>))
    /\ cm = NoCommit
    /\ found = NoFind
    /\ rr = NoResolve
    /\ IdleAdd /\ IdleObj /\ IdleIo /\ IdleStep /\ IdleTree /\ IdleAp

NextCommit ==
    \/ \E timestamp \in 1..2 : Commit(timestamp)
    \/ \E idx \in CrashIndexes : Stage(idx)
    \/ Detach

SpecCommit == InitCommit /\ [][NextCommit]_vars

\* The parent field of the stored commit sha: None without the field.
ParentOf(sha) ==
    IF KvIndex(object_read(fs, HexVals(sha)).obj.kvlm, keyParent) = 0 THEN None
    ELSE kvlm_field(object_read(fs, HexVals(sha)).obj.kvlm,
                    KvIndex(object_read(fs, HexVals(sha)).obj.kvlm, keyParent))

\* The commits visited from sha along parent fields, at most n of them.
RECURSIVE History(_, _)
History(sha, n) ==
    IF n = 0 \/ sha.none \/ ~exists(fs, ObjPath(HexVals(sha.data))) THEN <<>>
    ELSE <<sha.data>> \o History(ParentOf(sha.data), n - 1)

Reverse(s) == [i \in 1..Len(s) |-> s[Len(s) + 1 - i]]

\* C20: after a commit HEAD resolves to the commit made, whose parent
\* field is what HEAD resolved to before (no field for the first commit),
\* and the parents from HEAD are the commits made, the last one first.
C20_HeadIsNewCommit ==
    cm.op = "commit" =>
        /\ ref_resolve(refs, strHEAD) = Some(cm.made[Len(cm.made)].sha)
        /\ ParentOf(cm.made[Len(cm.made)].sha) = cm.made[Len(cm.made)].before
        /\ History(ref_resolve(refs, strHEAD), MaxCommits + 1)
               = Reverse([i \in 1..Len(cm.made) |-> cm.made[i].sha])

-----------------------------------------------------------------------------
(* Spec: what a call of add that raises leaves in the index                *)

\* A step of cmd_add that ends in an exception.
AddRaises == \E paths \in ArgLists : Add(paths) /\ raised'

\* C21: a call of add that raises (a named path is neither a file nor a
\* directory, or lies outside the worktree) leaves in the index exactly
\* the entries it held before the call.
C21_FailedAddKeepsIndex == [][AddRaises => index' = index]_vars

\* The part of C21 that the code keeps: where a named path lies outside
\* the worktree, rm raises before the index is written.
AddOutsideRaises ==
    \E paths \in ArgLists :
        /\ \E i \in 1..Len(paths) : ~InWorktree(paths[i])
        /\ Add(paths)

C21_OutsideKeepsIndex == [][AddOutsideRaises => raised' /\ index' = index]_vars
-----------------------------------------------------------------------------
(* SpecStaged: add, rm and commit on one repository, the index kept in    *)
(* its file, the worktree edited in between.  ap.log is the files that    *)
(* add has staged, each with the content it read.                          *)

\* The most calls of add, rm and commit in a run.
MaxOps == 2

StagedAddArgs == {<<pathA>>, <<pathD>>, <<pathA, pathDB>>, <<pathA, pathMissing>>, <<pathOutside>>}
StagedRmArgs == {<<pathA>>, <<pathDB>>, <<pathMissing>>}

\* The entries of the index file.
IndexEntries(f) == index_read(f).index.entries

\* index_write of rm and of add: rm raises before it for a path outside
\* of the worktree, and then nothing is written.
staged_write(f, paths, entries) ==
    IF \E i \in 1..Len(paths) : ~InWorktree(paths[i]) THEN f
    ELSE index_write(f, GitIndex(2, entries))

Staged(w, order) == {[name |-> order[i], content |-> ContentBytes(w[order[i]])] : i \in 1..Len(order)}

StagedAddDone(paths, order, r) ==
    /\ Len(r.index) <= MaxIndex
    /\ fs' = staged_write(r.fs, paths, r.index)
    /\ raised' = ~r.ok
    /\ ap' = [op |-> "add", ops |-> ap.ops + 1,
              log |-> IF r.ok THEN ap.log \cup Staged(wt, order) ELSE ap.log]
    /\ UNCHANGED <<wt, refs, othersStaged>>

\* cmd_add
StagedAdd(paths) ==
    /\ ap.ops < MaxOps
    /\ \E order \in AddOrders(wt, paths) :
           StagedAddDone(paths, order, add(fs, wt, IndexEntries(fs), paths, order))

StagedRmDone(r) ==
    /\ wt' = r.wt
    /\ fs' = IF r.ok THEN index_write(fs, GitIndex(2, r.index)) ELSE fs
    /\ raised' = ~r.ok
    /\ ap' = [ap EXCEPT !.op = "rm", !.ops = @ + 1]
    /\ UNCHANGED <<refs, othersStaged>>

\* cmd_rm
StagedRm(paths) ==
    /\ ap.ops < MaxOps
    /\ StagedRmDone(rm(wt, IndexEntries(fs), paths, TRUE, FALSE))

StagedCommitDone(r) ==
    /\ fs' = r.fs
    /\ refs' = r.refs
    /\ raised' = ~r.ok
    /\ ap' = [ap EXCEPT !.op = "commit", !.ops = @ + 1]
    /\ UNCHANGED <<wt, othersStaged>>

\* cmd_commit
StagedCommit ==
    /\ ap.ops < MaxOps
    /\ StagedCommitDone(cmd_commit(fs, refs, 1, 3600, <<109>>))

\* The user edits the worktree between commands.
StagedWriteFile(p, c) ==
    /\ wt[p] # c
    /\ wt' = [wt EXCEPT ![p] = c]
    /\ UNCHANGED <<fs, raised, refs, ap, othersStaged>>

StagedDeleteFile(p) ==
    /\ wt[p] # 0
    /\ wt' = [wt EXCEPT ![p] = 0]
    /\ UNCHANGED <<fs, raised, refs, ap, othersStaged>>

InitStaged ==
    /\ wt \in [WtFiles -> ContentIds \cup {0}]
    /\ index = <<>>
    /\ raised = FALSE
    /\ fs = EmptyFs
    /\ refs = (strHEAD :> (strRefColon \o strHeads \o strMaster \o <<NL>>))
    /\ found = NoFind
    /\ rr = NoResolve
    /\ ap = [op |-> "none", ops |-> 0, log |-> {}]
    /\ IdleObj /\ IdleIo /\ IdleStep /\ IdleTree /\ IdleCommit

NextStaged ==
    \/ \E paths \in StagedAddArgs : StagedAdd(paths)
    \/ \E paths \in StagedRmArgs : StagedRm(paths)
    \/ StagedCommit
    \/ \E p \in WtFiles, c \in ContentIds : StagedWriteFile(p, c)
    \/ \E p \in WtFiles : StagedDeleteFile(p)

SpecStaged == InitStaged /\ [][NextStaged]_vars

\* The entry e is of the staging s: it has the name, its digest is the
\* digest of the blob of the content read then, and the store holds that
\* blob under the digest.
EntryOfStaging(f, e, s) ==
    /\ e.name = s.name
    /\ e.sha = object_hash(f, s.content, fmtBlob, FALSE).sha
    /\ object_read(f, e.sha) = ReadOk(GitBlob(s.content))

\* C22: after any sequence of add, rm and commit every entry of the index
\* carries a digest under which the object store holds a blob, and it is
\* the digest of the content the file had when it was staged.
C22_EntriesHaveBlobs ==
    \A i \in 1..Len(IndexEntries(fs)) :
        \E s \in ap.log : EntryOfStaging(fs, IndexEntries(fs)[i], s)

\* An entry staged before its file was edited and before a commit, another
\* one staged after: the index is not what the worktree holds now.
C22_Witness ==
    /\ ap.op = "commit"
    /\ ~raised
    /\ Len(IndexEntries(fs)) >= 1
    /\ \E i \in 1..Len(IndexEntries(fs)) :
           ContentBytes(wt[IndexEntries(fs)[i].name]) # object_read(fs, IndexEntries(fs)[i].sha).obj.blobdata
=============================================================================
